---- MODULE Spec2Model ----
(***************************************************************************)
(* The durable GTFS import of transit-directory: Import511Workflow.run     *)
(* (src/src/Import511Workflow.ts) against the D1 schema of                 *)
(* src/migrations/0001_initial_schema.sql.                                 *)
(*                                                                         *)
(* State: the relational store (db), the blob staging area (r2), the       *)
(* archives the upstream may serve (upstream) and, per workflow instance,  *)
(* the position of run() together with its memoized step results (wf).     *)
(* Every step.do of run() is one action; the 'Initialize feed version'     *)
(* step is split at its store statements, which are its suspension points. *)
(*                                                                         *)
(* The real-time poller, Import511RealtimeWorkflow.run                     *)
(* (src/src/Import511RealtimeWorkflow.ts), keeps its position, its clock   *)
(* and the upstream's quota in rt; the chunked file reader and the pure    *)
(* parsers run on calc.                                                    *)
(***************************************************************************)
EXTENDS Integers, Sequences, FiniteSets, TLC

VARIABLES db, r2, upstream, wf, hist, crashes, runsLeft, rt, calc

vars == <<db, r2, upstream, wf, hist, crashes, runsLeft, rt, calc>>

(***************************************************************************)
(* Bounds of the model.                                                    *)
(***************************************************************************)
\* workflow instances created, one after the other
MaxRuns == 2
\* instance deaths between a step body and its checkpoint, in total
MaxCrashes == 1
\* rows of a stops.txt or trips.txt drawn for the loader specification
MaxRows == 2

Instances == 1..MaxRuns

\* SQL NULL / JS null in a text column; integer columns use 0, which no
\* AUTOINCREMENT key ever is and which JS treats as falsy like undefined
NULL == "NULL"

(***************************************************************************)
(* Pure helpers of Import511Workflow.ts                                    *)
(***************************************************************************)
\* nullIfEmpty: "" (and undefined) become null, anything else is kept
nullIfEmpty(value) == IF value = "" THEN NULL ELSE value

\* crypto.subtle.digest("SHA-256", arrayBuffer) as hex: a collision-free tag
\* of the archive bytes
sha256Hex(bytes) == <<"sha256", bytes>>

\* `511-${operatorId}-${hashHex}`
versionLabel(operatorId, hashHex) == <<"511", operatorId, hashHex>>

\* Record<string, number>: map[k] of a missing key is undefined (falsy, 0 here)
Lookup(map, k) == IF k \in DOMAIN map THEN map[k] ELSE 0

\* map[k] = v
Assign(map, k, v) == [x \in DOMAIN map \cup {k} |-> IF x = k THEN v ELSE map[x]]

\* Object.assign(target, source)
\* fault variant of ObjectAssign: the chunk's table replaces the global one
ObjectAssignReplace(target, source) == source

ObjectAssign(target, source) ==
  [x \in DOMAIN target \cup DOMAIN source |->
     IF x \in DOMAIN source THEN source[x] ELSE target[x]]

EmptyMap == [x \in {} |-> 0]

Range(s) == {s[n] : n \in DOMAIN s}

SeqsUpTo(S, n) == UNION {[1..m -> S] : m \in 0..n}

(***************************************************************************)
(* The relational store (D1 / SQLite)                                      *)
(***************************************************************************)
Tables ==
  {"feed_source", "feed_version", "agency", "routes", "stops",
   "calendar_dates", "trips", "stop_times", "transfers", "frequencies",
   "attributions", "pathways"}

\* the AUTOINCREMENT primary key column of each table
PkCol ==
  [feed_source |-> "feed_source_id", feed_version |-> "feed_version_id",
   agency |-> "agency_pk", routes |-> "route_pk", stops |-> "stop_pk",
   calendar_dates |-> "caldate_pk", trips |-> "trip_pk",
   stop_times |-> "stop_time_pk", transfers |-> "transfer_pk",
   frequencies |-> "frequency_pk", attributions |-> "attribution_pk",
   pathways |-> "pathway_pk"]

\* the UNIQUE constraint of each table ({} when the schema declares none)
UniqueCols ==
  [feed_source |-> {"source_name"},
   feed_version |-> {"feed_source_id", "version_label"},
   agency |-> {"feed_version_id", "agency_id"},
   routes |-> {"feed_version_id", "route_id"},
   stops |-> {"feed_version_id", "stop_id"},
   calendar_dates |-> {},
   trips |-> {"feed_version_id", "trip_id"},
   stop_times |-> {"trip_pk", "stop_sequence"},
   transfers |-> {},
   frequencies |-> {},
   attributions |-> {},
   pathways |-> {"feed_version_id", "pathway_id"}]

\* text columns that may hold NULL inside a UNIQUE constraint: SQLite treats
\* every NULL as distinct there, so such a row never conflicts
NullableUnique == {"agency_id"}

EmptyDb ==
  [t \in Tables \cup {"sqlite_sequence"} |->
     IF t = "sqlite_sequence" THEN [u \in Tables |-> 0] ELSE {}]

\* the rows a new row conflicts with under the table's UNIQUE constraint
Conflicting(d, t, vals) ==
  {r \in d[t] :
     /\ UniqueCols[t] # {}
     /\ \A c \in UniqueCols[t] :
          /\ r[c] = vals[c]
          /\ ~(c \in NullableUnique /\ vals[c] = NULL)}

\* INSERT INTO t (..) VALUES (..) [ON CONFLICT(unique) DO UPDATE SET upd =
\* excluded.upd] RETURNING pk, as one statement: the store after it and the
\* key it returns.  A statement without an ON CONFLICT clause is only ever
\* issued against a table without a UNIQUE constraint.
Upsert(d, t, upd, vals) ==
  LET hit == Conflicting(d, t, vals) IN
  IF hit = {}
  THEN LET pk == d.sqlite_sequence[t] + 1 IN
       [db |-> [d EXCEPT ![t] = @ \cup {vals @@ (PkCol[t] :> pk)},
                         !.sqlite_sequence[t] = pk],
        pk |-> pk]
  ELSE LET old == CHOOSE r \in hit : TRUE
           new == [c \in DOMAIN old |-> IF c \in upd THEN vals[c] ELSE old[c]]
       IN [db |-> [d EXCEPT ![t] = (@ \ {old}) \cup {new}],
           pk |-> old[PkCol[t]]]

\* batchExecute(db, stmts): the statements run in order, results[i] belongs
\* to statements[i]
RECURSIVE batchExecute(_, _, _, _)
batchExecute(d, t, upd, stmts) ==
  IF stmts = <<>>
  THEN [db |-> d, pks |-> <<>>]
  ELSE LET one == Upsert(d, t, upd, Head(stmts))
           rest == batchExecute(one.db, t, upd, Tail(stmts))
       IN [db |-> rest.db, pks |-> <<one.pk>> \o rest.pks]

(***************************************************************************)
(* Archives.  A feed is the content of the files of one zip; a file is the *)
(* sequence of its parsed rows (CsvRow), <<>> when the zip lacks the file. *)
(***************************************************************************)
OperatorIds == {"SF"}

StopRowKinds ==
  {[stop_id |-> "A", parent_station |-> ""],
   [stop_id |-> "B", parent_station |-> "A"],
   [stop_id |-> "B", parent_station |-> "X"]}

TripRowKinds ==
  {[trip_id |-> "T1", route_id |-> "R1"],
   [trip_id |-> "T1", route_id |-> "RX"],
   [trip_id |-> "T2", route_id |-> "R1"]}

\* a feed whose leaf files refer to known and to unknown stops and trips
FeedA ==
  [agency |-> <<[agency_id |-> "", agency_timezone |-> "TZ"]>>,
   feed_info |-> <<[feed_lang |-> "en"]>>,
   routes |-> <<[route_id |-> "R1", agency_id |-> ""]>>,
   stops |-> <<[stop_id |-> "B", parent_station |-> "A"],
               [stop_id |-> "A", parent_station |-> ""]>>,
   calendar_dates |-> <<[service_id |-> "WK", date |-> "20260101"]>>,
   trips |-> <<[trip_id |-> "T1", route_id |-> "R1"],
               [trip_id |-> "T2", route_id |-> "RX"]>>,
   stop_times |-> <<[trip_id |-> "TX", stop_id |-> "A", stop_sequence |-> 1],
                    [trip_id |-> "T1", stop_id |-> "X", stop_sequence |-> 2],
                    [trip_id |-> "T1", stop_id |-> "B", stop_sequence |-> 3]>>,
   shapes |-> <<>>,
   transfers |-> <<[from_stop_id |-> "A", to_stop_id |-> "X"],
                   [from_stop_id |-> "X", to_stop_id |-> "B"],
                   [from_stop_id |-> "A", to_stop_id |-> "B"]>>,
   frequencies |-> <<[trip_id |-> "TX"], [trip_id |-> "T1"]>>,
   attributions |-> <<>>,
   pathways |-> <<[pathway_id |-> "P1", from_stop_id |-> "X", to_stop_id |-> "A"],
                  [pathway_id |-> "P2", from_stop_id |-> "A", to_stop_id |-> "B"],
                  [pathway_id |-> "P3", from_stop_id |-> "B", to_stop_id |-> "X"]>>]

\* a second, smaller archive of the same operator
FeedB ==
  [FeedA EXCEPT !.agency = <<[agency_id |-> "AG", agency_timezone |-> "TZ"]>>,
                !.feed_info = <<>>,
                !.routes = <<[route_id |-> "R1", agency_id |-> "AG"]>>,
                !.stops = <<[stop_id |-> "A", parent_station |-> ""]>>,
                !.trips = <<[trip_id |-> "T1", route_id |-> "R1"]>>,
                !.shapes = <<[shape_id |-> "S1"]>>,
                !.stop_times = <<>>, !.transfers = <<>>,
                !.frequencies = <<>>, !.pathways = <<>>]

\* a small archive with a child stop listed before its parent station
FeedS ==
  [FeedB EXCEPT !.stops = <<[stop_id |-> "B", parent_station |-> "A"],
                            [stop_id |-> "A", parent_station |-> ""]>>,
                !.stop_times = <<[trip_id |-> "T1", stop_id |-> "A",
                                  stop_sequence |-> 1]>>]

\* an archive with unique ids in which every reference resolves: stops S1
\* and S2 (parent S1), one route, one trip, two stop_times
FeedClean ==
  [FeedB EXCEPT !.stops = <<[stop_id |-> "S1", parent_station |-> ""],
                            [stop_id |-> "S2", parent_station |-> "S1"]>>,
                !.stop_times = <<[trip_id |-> "T1", stop_id |-> "S1",
                                  stop_sequence |-> 1],
                                 [trip_id |-> "T1", stop_id |-> "S2",
                                  stop_sequence |-> 2]>>]

\* FeedClean with a route of an agency agency.txt does not list, and with
\* transfers and attributions whose optional agency, route and trip
\* references are known, unknown or empty
FeedRefs ==
  [FeedClean EXCEPT
     !.routes = <<[route_id |-> "R1", agency_id |-> "AG"],
                  [route_id |-> "R2", agency_id |-> "ZZ"]>>,
     !.transfers = <<[from_stop_id |-> "S1", to_stop_id |-> "S2",
                      from_route_id |-> "R1", to_route_id |-> "RZ",
                      from_trip_id |-> "TZ", to_trip_id |-> "T1"],
                     [from_stop_id |-> "S2", to_stop_id |-> "S1",
                      from_route_id |-> "", to_route_id |-> "",
                      from_trip_id |-> "", to_trip_id |-> ""]>>,
     !.attributions = <<[attribution_id |-> "AT1", agency_id |-> "AG",
                         route_id |-> "RZ", trip_id |-> ""],
                        [attribution_id |-> "AT2", agency_id |-> "ZZ",
                         route_id |-> "R2", trip_id |-> "TZ"]>>]

\* FeedClean with a calendar_dates.txt of one row, its date any of dates
FeedsDated(dates) ==
  {[FeedClean EXCEPT !.calendar_dates = <<[service_id |-> "WK", date |-> d]>>] :
     d \in dates}

\* an archive whose agency.txt carries no agency_timezone
FeedNoTimezone ==
  [FeedB EXCEPT !.agency = <<[agency_id |-> "AG", agency_timezone |-> ""]>>]

\* an archive without agency.txt
FeedNoAgency == [FeedB EXCEPT !.agency = <<>>]

FileKeys == DOMAIN FeedA

\* the archives of the loader specification: FeedA with every stops.txt, and
\* FeedA with every trips.txt, of at most MaxRows rows
LoaderFeeds ==
  {[FeedA EXCEPT !.stops = f] : f \in SeqsUpTo(StopRowKinds, MaxRows)}
    \cup {[FeedA EXCEPT !.trips = f] : f \in SeqsUpTo(TripRowKinds, MaxRows)}

(***************************************************************************)
(* The blob staging area (R2)                                              *)
(***************************************************************************)
\* a fault for comparison: one prefix for every instance
ObjectKeyShared(i, key) == <<"imports", 0, key>>

\* `imports/${instanceId}/${fileName}`
ObjectKey(i, key) == <<"imports", i, key>>

\* getFileRows(key): the parsed rows of the staged file, [] when absent
getFileRows(i, key) ==
  IF ObjectKey(i, key) \in DOMAIN r2 THEN r2[ObjectKey(i, key)] ELSE <<>>

(***************************************************************************)
(* run(): the steps in program order                                       *)
(***************************************************************************)
\* a fault for comparison: the trips are loaded before the routes
StepOrderTripsEarly ==
  <<"download", "init", "feed_info", "levels", "agencies", "trips", "routes",
    "stops", "parents", "calendar", "calendar_dates", "stop_times", "shapes",
    "fare_attributes", "fare_rules", "transfers", "frequencies",
    "attributions", "pathways", "areas", "stop_areas", "networks",
    "route_networks", "timeframes", "rider_categories", "fare_media",
    "fare_products", "fare_leg_rules", "fare_leg_join_rules",
    "fare_transfer_rules", "location_groups", "location_group_stops",
    "booking_rules", "translations", "cleanup">>

\* a fault for comparison: agencies, stops, levels, routes
StepOrderStopsEarly ==
  <<"download", "init", "feed_info", "agencies", "stops", "parents", "levels",
    "routes", "calendar", "calendar_dates", "trips", "stop_times", "shapes",
    "fare_attributes", "fare_rules", "transfers", "frequencies",
    "attributions", "pathways", "areas", "stop_areas", "networks",
    "route_networks", "timeframes", "rider_categories", "fare_media",
    "fare_products", "fare_leg_rules", "fare_leg_join_rules",
    "fare_transfer_rules", "location_groups", "location_group_stops",
    "booking_rules", "translations", "cleanup">>

StepOrder ==
  <<"download", "init", "feed_info", "levels", "agencies", "routes", "stops",
    "parents", "calendar", "calendar_dates", "trips", "stop_times", "shapes",
    "fare_attributes", "fare_rules", "transfers", "frequencies",
    "attributions", "pathways", "areas", "stop_areas", "networks",
    "route_networks", "timeframes", "rider_categories", "fare_media",
    "fare_products", "fare_leg_rules", "fare_leg_join_rules",
    "fare_transfer_rules", "location_groups", "location_group_stops",
    "booking_rules", "translations", "cleanup">>

Steps == Range(StepOrder)

\* the steps that load one chunk of a large file per step.do
ChunkSteps == {"stops", "trips", "stop_times", "shapes"}

\* the load steps whose tables this model does not hold
OtherSteps ==
  Steps \ {"download", "init", "agencies", "routes", "stops", "parents",
           "calendar_dates", "trips", "stop_times", "transfers",
           "frequencies", "attributions", "pathways", "cleanup"}

StepIndex(s) == CHOOSE n \in DOMAIN StepOrder : StepOrder[n] = s

\* the state of an instance that has not started
IdleRun ==
  [pc |-> "idle", stmt |-> 0, error |-> "", id |-> "", hashHex |-> <<>>,
   feedSourceId |-> 0, feedVersionId |-> 0, isNewVersion |-> FALSE,
   agencyTimezone |-> "", agencyMap |-> EmptyMap, routeMap |-> EmptyMap, stopMap |-> EmptyMap,
   parentAssignments |-> <<>>, tripMap |-> EmptyMap,
   offset |-> [s \in ChunkSteps |-> 0],
   chunkIndex |-> [s \in ChunkSteps |-> 0]]

\* what the model remembers of a run beyond the program's own state
NoHistory ==
  [ran |-> {}, bytes |-> "", prior |-> FALSE, activeBefore |-> {},
   inserted |-> 0, memo |-> <<>>]

Running(i) == wf[i].pc \in Steps

\* a fault for comparison: the cleanup stands behind if (isNewVersion) too
AppliesCleanupNewOnly(i, w, s) ==
  CASE s \in {"download", "init"} -> TRUE
    [] s = "feed_info" -> w.isNewVersion /\ getFileRows(i, "feed_info") # <<>>
    [] s \in ChunkSteps ->
         w.isNewVersion /\ w.offset[s] < Len(getFileRows(i, s))
    [] s = "parents" -> w.isNewVersion /\ w.parentAssignments # <<>>
    [] OTHER -> w.isNewVersion

\* the guard run() puts in front of step s, for the run state w of instance i
Applies(i, w, s) ==
  CASE s \in {"download", "init", "cleanup"} -> TRUE
    [] s = "feed_info" -> w.isNewVersion /\ getFileRows(i, "feed_info") # <<>>
    [] s \in ChunkSteps ->
         w.isNewVersion /\ w.offset[s] < Len(getFileRows(i, s))
    [] s = "parents" -> w.isNewVersion /\ w.parentAssignments # <<>>
    [] OTHER -> w.isNewVersion

\* the step run() reaches after step s returned, w holding the new results
StepAfter(i, w, s) ==
  LET from == IF s \in ChunkSteps THEN StepIndex(s) ELSE StepIndex(s) + 1
      later == {n \in from..Len(StepOrder) : Applies(i, w, StepOrder[n])}
  IN IF later = {} THEN "done"
     ELSE StepOrder[CHOOSE n \in later : \A m \in later : n <= m]

\* no real-time workflow instance exists
NoRealtime == [pc |-> "none"]

\* nothing is being parsed
NoCalc == [pc |-> "none"]

TypeOK ==
  /\ DOMAIN wf = Instances
  /\ \A i \in Instances : wf[i].pc \in Steps \cup {"idle", "done", "failed"}
  /\ crashes \in 0..MaxCrashes
  /\ runsLeft \in 0..MaxRuns

Init ==
  /\ db = EmptyDb
  /\ r2 = <<>>
  /\ upstream = [b \in {"b0", "b1", "b2"} |->
                  CASE b = "b0" -> FeedNoTimezone [] b = "b1" -> FeedS [] OTHER -> FeedB]
  /\ wf = [i \in Instances |-> IdleRun]
  /\ hist = [i \in Instances |-> NoHistory]
  /\ crashes = 0
  /\ runsLeft = MaxRuns
  /\ rt = NoRealtime
  /\ calc = NoCalc

(***************************************************************************)
(* step.do(name, fn)                                                       *)
(***************************************************************************)
\* run() is over (returned, or the instance errored): its locals are gone,
\* the instance keeps its parameters and the result of its init step
Finished(w, status) ==
  [IdleRun EXCEPT !.pc = status, !.id = w.id, !.hashHex = w.hashHex,
                  !.feedVersionId = w.feedVersionId,
                  !.isNewVersion = w.isNewVersion]

\* the return value of a step body, as the engine memoizes it: the fields
\* run() reads from the results of its steps
NoResult ==
  [step |-> "", hashHex |-> <<>>, feedVersionId |-> 0, isNewVersion |-> FALSE,
   agencyTimezone |-> "", map |-> EmptyMap, processed |-> 0,
   assignments |-> <<>>]

\* The body of step s of instance i ran to its end and w2 holds its result:
\* either the result is persisted and run() goes on, or the instance dies
\* before the checkpoint and the engine runs the same step body again.
\* result is what the body returns; the engine stores it under the step's
\* name (hist[i].memo) when the step completes; nothing reads the stored
\* results once run() has returned.
Checkpoint(i, s, w2, result) ==
  \/ /\ wf' = [wf EXCEPT ![i] =
                  IF StepAfter(i, w2, s) = "done" THEN Finished(w2, "done")
                  ELSE [w2 EXCEPT !.pc = StepAfter(i, w2, s)]]
     /\ hist' = [hist EXCEPT ![i].ran = @ \cup ({s} \ OtherSteps),
                             ![i].memo =
                                IF StepAfter(i, w2, s) = "done" THEN <<>>
                                ELSE Append(@, [result EXCEPT !.step = s])]
     /\ crashes' = crashes
  \/ /\ crashes < MaxCrashes
     /\ wf' = wf
     /\ hist' = [hist EXCEPT ![i].ran = @ \cup ({s} \ OtherSteps)]
     /\ crashes' = crashes + 1

\* a step whose body returns nothing run() reads
Settle(i, s, w2) == Checkpoint(i, s, w2, NoResult)

\* IMPORT_511_WORKFLOW.create({ params: { id } }): the next instance starts
\* once no other instance is running
StartRun(i, id) ==
  /\ runsLeft > 0
  /\ wf[i].pc = "idle"
  /\ \A j \in Instances : ~Running(j) /\ (j < i => wf[j].pc # "idle")
  /\ wf' = [wf EXCEPT ![i] = [IdleRun EXCEPT !.pc = "download", !.id = id]]
  /\ hist' = [hist EXCEPT ![i] =
                [NoHistory EXCEPT !.activeBefore =
                   {v.feed_version_id : v \in {x \in db.feed_version : x.is_active = 1}}]]
  /\ runsLeft' = runsLeft - 1
  /\ UNCHANGED <<db, r2, upstream, rt, calc, crashes>>

\* 'Download and unzip to R2': fetch the archive, hash it, stage every file
\* under the run's prefix
Download(i, bytes) ==
  /\ wf[i].pc = "download"
  /\ bytes \in DOMAIN upstream
  /\ LET staged == {ObjectKey(i, k) : k \in {f \in FileKeys : upstream[bytes][f] # <<>>}}
     IN r2' = [o \in DOMAIN r2 \cup staged |->
                 IF o \in staged THEN upstream[bytes][o[3]] ELSE r2[o]]
  /\ LET h == [hist EXCEPT ![i].ran = @ \cup {"download"},
                            ![i].bytes = bytes,
                            ![i].prior =
                               \E j \in Instances :
                                 /\ wf[j].pc = "done"
                                 /\ wf[j].id = wf[i].id
                                 /\ hist[j].bytes = bytes]
     IN \/ /\ wf' = [wf EXCEPT ![i].hashHex = sha256Hex(bytes), ![i].pc = "init",
                               ![i].stmt = 0]
           /\ hist' = [h EXCEPT ![i].memo =
                         Append(@, [NoResult EXCEPT !.step = "download",
                                                    !.hashHex = sha256Hex(bytes)])]
           /\ crashes' = crashes
        \/ /\ crashes < MaxCrashes
           /\ wf' = wf
           /\ hist' = h
           /\ crashes' = crashes + 1
  /\ UNCHANGED <<db, upstream, rt, calc, runsLeft>>

(***************************************************************************)
(* 'Initialize feed version', statement by statement.  wf[i].stmt counts   *)
(* the store statements the running step body has issued; the body's local *)
(* feedSourceId, feedVersionId and isNewVersion live in wf[i] and become   *)
(* the step's result when the body returns.                                *)
(***************************************************************************)
InitFrame == UNCHANGED <<r2, upstream, rt, calc, crashes, runsLeft>>

\* INSERT INTO feed_source .. ON CONFLICT(source_name) DO UPDATE, then
\* SELECT feed_source_id; throws before any write when agency.txt gives no
\* agency_timezone
InitEnsureFeedSource(i) ==
  /\ wf[i].pc = "init" /\ wf[i].stmt = 0
  /\ LET agencyRows == getFileRows(i, "agency")
         res == Upsert(db, "feed_source", {}, [source_name |-> wf[i].id])
     IN /\ agencyRows # <<>> /\ agencyRows[1].agency_timezone # ""
        /\ db' = res.db
        /\ wf' = [wf EXCEPT ![i].feedSourceId = res.pk, ![i].stmt = 1,
                            ![i].agencyTimezone = agencyRows[1].agency_timezone]
  /\ hist' = [hist EXCEPT ![i].ran = @ \cup {"init"}]
  /\ InitFrame

\* INSERT INTO feed_version (.., is_active) VALUES (.., 1)
\* ON CONFLICT(feed_source_id, version_label) DO NOTHING RETURNING
\* feed_version_id: the new row's id, or no row at all on a conflict.
InsertFeedVersion(d, feedSourceId, label) ==
  LET vals == [feed_source_id |-> feedSourceId, version_label |-> label,
               is_active |-> 1]
  IN IF Conflicting(d, "feed_version", vals) = {}
     THEN Upsert(d, "feed_version", {}, vals)
     ELSE [db |-> d, pk |-> 0]

\* fault variant of IsNewVersion: the flag is set whether or not the INSERT
\* returned a row
IsNewVersionAlways(returnedId) == TRUE

\* let isNewVersion = false; if (feedVersionId) isNewVersion = true
IsNewVersion(returnedId) == returnedId # 0

InitInsertVersion(i) ==
  /\ wf[i].pc = "init" /\ wf[i].stmt = 1
  /\ LET res == InsertFeedVersion(db, wf[i].feedSourceId,
                                  versionLabel(wf[i].id, wf[i].hashHex))
     IN /\ db' = res.db
        /\ wf' = [wf EXCEPT ![i].feedVersionId = res.pk,
                            ![i].isNewVersion = IsNewVersion(res.pk),
                            ![i].stmt = 2]
        /\ hist' = [hist EXCEPT ![i].inserted = IF res.pk # 0 THEN res.pk ELSE @]
  /\ InitFrame

\* UPDATE feed_version SET is_active = 1 WHERE feed_version_id = ?
SetActive(d, feedVersionId) ==
  [d EXCEPT !.feed_version =
     {IF v.feed_version_id = feedVersionId THEN [v EXCEPT !.is_active = 1] ELSE v
        : v \in @}]

\* the version exists: SELECT its id, then 'Ensure it is active'
InitActivateExisting(i) ==
  /\ wf[i].pc = "init" /\ wf[i].stmt = 2 /\ ~wf[i].isNewVersion
  /\ LET existing == {v \in db.feed_version :
                        /\ v.feed_source_id = wf[i].feedSourceId
                        /\ v.version_label = versionLabel(wf[i].id, wf[i].hashHex)}
         id == (CHOOSE v \in existing : TRUE).feed_version_id
     IN /\ existing # {}
        /\ db' = SetActive(db, id)
        /\ wf' = [wf EXCEPT ![i].feedVersionId = id, ![i].stmt = 3]
  /\ UNCHANGED hist
  /\ InitFrame

\* the batch of DELETE .. WHERE feed_version_id = ? (stop_times and
\* frequencies through their trip_pk) that clears rows staged under the id
ClearVersion(d, feedVersionId) ==
  LET tripPks == {t.trip_pk : t \in {x \in d.trips : x.feed_version_id = feedVersionId}}
      own(t) == {r \in d[t] : r.feed_version_id = feedVersionId}
  IN [d EXCEPT !.stop_times = {r \in @ : r.trip_pk \notin tripPks},
               !.frequencies = {r \in @ : r.trip_pk \notin tripPks},
               !.trips = @ \ own("trips"),
               !.attributions = @ \ own("attributions"),
               !.transfers = @ \ own("transfers"),
               !.pathways = @ \ own("pathways"),
               !.stops = @ \ own("stops"),
               !.routes = @ \ own("routes"),
               !.agency = @ \ own("agency"),
               !.calendar_dates = @ \ own("calendar_dates")]

InitClearStaged(i) ==
  /\ wf[i].pc = "init" /\ wf[i].stmt = 2 /\ wf[i].isNewVersion
  /\ db' = ClearVersion(db, wf[i].feedVersionId)
  /\ wf' = [wf EXCEPT ![i].stmt = 3]
  /\ UNCHANGED hist
  /\ InitFrame

\* fault variant of DeactivateOthers: the WHERE clause lacks the source
DeactivateEverywhere(d, feedSourceId, feedVersionId) ==
  [d EXCEPT !.feed_version =
     {IF v.feed_version_id # feedVersionId
        THEN [v EXCEPT !.is_active = 0] ELSE v : v \in @}]

\* fault variant of DeactivateOthers: the UPDATE matches no row
DeactivateNone(d, feedSourceId, feedVersionId) == d

\* UPDATE feed_version SET is_active = 0
\* WHERE feed_source_id = ? AND feed_version_id != ?
DeactivateOthers(d, feedSourceId, feedVersionId) ==
  [d EXCEPT !.feed_version =
     {IF v.feed_source_id = feedSourceId /\ v.feed_version_id # feedVersionId
        THEN [v EXCEPT !.is_active = 0] ELSE v : v \in @}]

InitDeactivateOthers(i) ==
  /\ wf[i].pc = "init" /\ wf[i].stmt = 3
  /\ db' = DeactivateOthers(db, wf[i].feedSourceId, wf[i].feedVersionId)
  /\ wf' = [wf EXCEPT ![i].stmt = 4]
  /\ UNCHANGED hist
  /\ InitFrame

\* return { feedVersionId, feedInfo, isNewVersion, agencyTimezone }: the
\* result is checkpointed and run() goes on
InitReturn(i) ==
  /\ wf[i].pc = "init" /\ wf[i].stmt = 4
  /\ wf' = [wf EXCEPT ![i].pc = StepAfter(i, wf[i], "init"), ![i].stmt = 0]
  /\ hist' = [hist EXCEPT ![i].memo =
                Append(@, [NoResult EXCEPT
                             !.step = "init",
                             !.feedVersionId = wf[i].feedVersionId,
                             !.isNewVersion = wf[i].isNewVersion,
                             !.agencyTimezone = wf[i].agencyTimezone])]
  /\ UNCHANGED db
  /\ InitFrame

\* the instance dies inside the step body: the engine runs the body again
\* from its first statement, with fresh locals
InitCrash(i) ==
  /\ wf[i].pc = "init" /\ wf[i].stmt > 0
  /\ crashes < MaxCrashes
  /\ crashes' = crashes + 1
  /\ wf' = [wf EXCEPT ![i].stmt = 0, ![i].feedSourceId = 0,
                      ![i].feedVersionId = 0, ![i].isNewVersion = FALSE,
                      ![i].agencyTimezone = ""]
  /\ UNCHANGED <<db, r2, upstream, rt, calc, hist, runsLeft>>

\* fault variant of InitThrowNoTimezone: the timezone is tested after the
\* feed_source upsert
InitThrowAfterSource(i) ==
  /\ wf[i].pc = "init" /\ wf[i].stmt = 0
  /\ LET agencyRows == getFileRows(i, "agency")
     IN IF agencyRows = <<>> THEN TRUE ELSE agencyRows[1].agency_timezone = ""
  /\ db' = Upsert(db, "feed_source", {}, [source_name |-> wf[i].id]).db
  /\ wf' = [wf EXCEPT ![i] = [Finished(@, "failed") EXCEPT
                                 !.error = "Agency timezone is missing"]]
  /\ hist' = [hist EXCEPT ![i].memo = <<>>]
  /\ UNCHANGED <<r2, upstream, rt, calc, crashes, runsLeft>>

\* throw new Error(`Agency timezone is missing`): every attempt of the step
\* throws, the instance ends errored
InitThrowNoTimezone(i) ==
  /\ wf[i].pc = "init" /\ wf[i].stmt = 0
  /\ LET agencyRows == getFileRows(i, "agency")
     IN IF agencyRows = <<>> THEN TRUE ELSE agencyRows[1].agency_timezone = ""
  /\ wf' = [wf EXCEPT ![i] = [Finished(@, "failed") EXCEPT
                                 !.error = "Agency timezone is missing"]]
  /\ hist' = [hist EXCEPT ![i].memo = <<>>]
  /\ UNCHANGED <<db, r2, upstream, rt, calc, crashes, runsLeft>>

\* a store or network call of the step in progress keeps failing until the
\* engine gives up: the instance ends errored where it stands
StepFails(i) ==
  /\ Running(i)
  /\ wf' = [wf EXCEPT ![i] = Finished(@, "failed")]
  /\ hist' = [hist EXCEPT ![i].memo = <<>>]
  /\ UNCHANGED <<db, r2, upstream, rt, calc, crashes, runsLeft>>

(***************************************************************************)
(* The table-load steps.  A step builds its statements from the staged     *)
(* file and the remapping tables, runs them through batchExecute and       *)
(* returns the remapping table of its own rows.                            *)
(***************************************************************************)
LoadFrame == UNCHANGED <<r2, upstream, rt, calc, runsLeft>>

\* rows.forEach((row, i) => { const pk = results[i]..; if (pk) map[key] = pk })
RECURSIVE MapFromResults(_, _, _)
MapFromResults(keys, pks, map) ==
  IF keys = <<>> THEN map
  ELSE MapFromResults(Tail(keys), Tail(pks),
                      IF Head(pks) # 0 THEN Assign(map, Head(keys), Head(pks))
                      ELSE map)

\* the date fields of the archives: a day, an empty field, a date with
\* dashes (ten characters), a thirteenth month
DateStrings == {"20260101", "", "2026-01-01", "20261301"}

\* the strings of eight characters whose year, month and day luxon accepts
\* (dt.isValid)
ValidDates == {"20260101"}

\* SQL NULL / JS null in the date column
NullDate == <<>>

\* parseGtfsDate: null for an empty field, for a length other than 8 and for
\* a day that does not exist; else YYYYMMDD at local noon in the agency's
\* timezone
parseGtfsDate(dateStr, timezone) ==
  IF dateStr \notin ValidDates THEN NullDate
  ELSE <<dateStr, "12:00", timezone>>

AgencyStmts(feedVersionId, rows) ==
  [n \in DOMAIN rows |->
     [feed_version_id |-> feedVersionId,
      agency_id |-> nullIfEmpty(rows[n].agency_id)]]

\* 'Import agencies'
ImportAgencies(i) ==
  /\ wf[i].pc = "agencies"
  /\ LET agencyRows == getFileRows(i, "agency")
         res == batchExecute(db, "agency", {},
                             AgencyStmts(wf[i].feedVersionId, agencyRows))
         map == MapFromResults([n \in DOMAIN agencyRows |-> agencyRows[n].agency_id],
                               res.pks, EmptyMap)
     IN /\ db' = res.db
        /\ Checkpoint(i, "agencies", [wf[i] EXCEPT !.agencyMap = map],
                      [NoResult EXCEPT !.map = map])
  /\ LoadFrame

RouteStmts(feedVersionId, rows, agencyMap) ==
  [n \in DOMAIN rows |->
     [feed_version_id |-> feedVersionId,
      route_id |-> nullIfEmpty(rows[n].route_id),
      agency_pk |-> Lookup(agencyMap, rows[n].agency_id)]]

\* 'Import routes'
ImportRoutes(i) ==
  /\ wf[i].pc = "routes"
  /\ LET routeRows == getFileRows(i, "routes")
         res == batchExecute(db, "routes", {"agency_pk"},
                             RouteStmts(wf[i].feedVersionId, routeRows, wf[i].agencyMap))
         map == MapFromResults([n \in DOMAIN routeRows |-> routeRows[n].route_id],
                               res.pks, EmptyMap)
     IN /\ db' = res.db
        /\ Checkpoint(i, "routes", [wf[i] EXCEPT !.routeMap = map],
                      [NoResult EXCEPT !.map = map])
  /\ LoadFrame

\* every stop is inserted with a null parent_station; the DO UPDATE SET list
\* leaves parent_station out
StopStmts(feedVersionId, rows) ==
  [n \in DOMAIN rows |->
     [feed_version_id |-> feedVersionId,
      stop_id |-> nullIfEmpty(rows[n].stop_id),
      parent_station |-> 0]]

\* processLocalBatch: if (pk && row.parent_station) push { childPk, parentId }
RECURSIVE LocalAssignments(_, _)
LocalAssignments(rows, pks) ==
  IF rows = <<>> THEN <<>>
  ELSE (IF Head(pks) # 0 /\ Head(rows).parent_station # ""
        THEN <<[childPk |-> Head(pks), parentId |-> Head(rows).parent_station]>>
        ELSE <<>>)
       \o LocalAssignments(Tail(rows), Tail(pks))

\* fault variant of ChunkRows: the first line after the cut is lost
ChunkRowsLosingFirst(file, offset, k) == SubSeq(file, offset + 2, offset + k)

\* the rows of the chunk that starts at row offset and holds k complete lines
ChunkRows(file, offset, k) == SubSeq(file, offset + 1, offset + k)

\* 'Import stops chunk n': the byte range holds the next k complete lines
ImportStopsChunk(i) ==
  /\ wf[i].pc = "stops"
  /\ \E k \in 1..(Len(getFileRows(i, "stops")) - wf[i].offset["stops"]) :
       LET rows == ChunkRows(getFileRows(i, "stops"), wf[i].offset["stops"], k)
           res == batchExecute(db, "stops", {}, StopStmts(wf[i].feedVersionId, rows))
           localMap == MapFromResults([n \in DOMAIN rows |-> rows[n].stop_id],
                                      res.pks, EmptyMap)
       IN /\ db' = res.db
          /\ Checkpoint(i, "stops",
                        [wf[i] EXCEPT !.offset["stops"] = @ + k,
                                      !.chunkIndex["stops"] = @ + 1,
                                      !.stopMap = ObjectAssign(@, localMap),
                                      !.parentAssignments =
                                         @ \o LocalAssignments(rows, res.pks)],
                        [NoResult EXCEPT
                           !.processed = k, !.map = localMap,
                           !.assignments = LocalAssignments(rows, res.pks)])
  /\ LoadFrame

\* for (const item of parentAssignments) { const parentPk =
\* stopMap[item.parentId]; if (parentPk) UPDATE stops SET parent_station = ?
\* WHERE stop_pk = ? }
RECURSIVE UpdateParentStations(_, _, _)
UpdateParentStations(d, assignments, stopMap) ==
  IF assignments = <<>> THEN d
  ELSE LET item == Head(assignments)
           parentPk == Lookup(stopMap, item.parentId)
           d2 == IF parentPk # 0
                 THEN [d EXCEPT !.stops =
                         {IF r.stop_pk = item.childPk
                            THEN [r EXCEPT !.parent_station = parentPk] ELSE r
                            : r \in @}]
                 ELSE d
       IN UpdateParentStations(d2, Tail(assignments), stopMap)

\* 'Update parent stations'
UpdateParents(i) ==
  /\ wf[i].pc = "parents"
  /\ db' = UpdateParentStations(db, wf[i].parentAssignments, wf[i].stopMap)
  /\ Settle(i, "parents", wf[i])
  /\ LoadFrame

CalendarDateStmts(feedVersionId, rows, timezone) ==
  [n \in DOMAIN rows |->
     [feed_version_id |-> feedVersionId,
      service_id |-> nullIfEmpty(rows[n].service_id),
      date |-> parseGtfsDate(rows[n].date, timezone)]]

\* date INTEGER NOT NULL: a statement that binds null for it is refused
BreaksNotNull(stmts) == \E n \in DOMAIN stmts : stmts[n].date = NullDate

\* 'Import calendar_dates': a plain INSERT.  db.batch runs its statements
\* in one transaction; when the store refuses one, nothing is written, the
\* batch rejects, every attempt of the step throws the same error and the
\* instance ends errored.
ImportCalendarDates(i) ==
  /\ wf[i].pc = "calendar_dates"
  /\ LET stmts == CalendarDateStmts(wf[i].feedVersionId,
                                    getFileRows(i, "calendar_dates"),
                                    wf[i].agencyTimezone)
     IN IF BreaksNotNull(stmts)
        THEN /\ wf' = [wf EXCEPT ![i] = [Finished(@, "failed") EXCEPT
                          !.error = "NOT NULL constraint failed: calendar_dates.date"]]
             /\ UNCHANGED <<db, hist, crashes>>
        ELSE /\ db' = batchExecute(db, "calendar_dates", {}, stmts).db
             /\ Settle(i, "calendar_dates", wf[i])
  /\ LoadFrame

\* fault variant of TripRowsKept: no row is skipped
TripRowsAll(rows, routeMap) == rows

\* const routePk = routeMap[row.route_id]; if (!routePk) continue;
TripRowsKept(rows, routeMap) ==
  SelectSeq(rows, LAMBDA row : Lookup(routeMap, row.route_id) # 0)

TripStmts(feedVersionId, rows, routeMap) ==
  [n \in DOMAIN rows |->
     [feed_version_id |-> feedVersionId,
      trip_id |-> nullIfEmpty(rows[n].trip_id),
      route_pk |-> Lookup(routeMap, rows[n].route_id)]]

\* 'Import trips chunk n'
ImportTripsChunk(i) ==
  /\ wf[i].pc = "trips"
  /\ \E k \in 1..(Len(getFileRows(i, "trips")) - wf[i].offset["trips"]) :
       LET rows == TripRowsKept(ChunkRows(getFileRows(i, "trips"),
                                          wf[i].offset["trips"], k),
                                wf[i].routeMap)
           res == batchExecute(db, "trips", {"route_pk"},
                               TripStmts(wf[i].feedVersionId, rows, wf[i].routeMap))
           localMap == MapFromResults([n \in DOMAIN rows |-> rows[n].trip_id],
                                      res.pks, EmptyMap)
       IN /\ db' = res.db
          /\ Checkpoint(i, "trips",
                        [wf[i] EXCEPT !.offset["trips"] = @ + k,
                                      !.chunkIndex["trips"] = @ + 1,
                                      !.tripMap = ObjectAssign(@, localMap)],
                        [NoResult EXCEPT !.processed = k, !.map = localMap])
  /\ LoadFrame

\* fault variant of StopTimeRowsKept: the loop ends at the first unknown id
\* (break in place of continue)
RECURSIVE StopTimeRowsUntilUnknown(_, _, _)
StopTimeRowsUntilUnknown(rows, tripMap, stopMap) ==
  IF rows = <<>> THEN <<>>
  ELSE IF Lookup(tripMap, Head(rows).trip_id) = 0
          \/ Lookup(stopMap, Head(rows).stop_id) = 0
       THEN <<>>
       ELSE <<Head(rows)>> \o StopTimeRowsUntilUnknown(Tail(rows), tripMap, stopMap)

\* if (!tripPk || !stopPk) continue;
StopTimeRowsKept(rows, tripMap, stopMap) ==
  SelectSeq(rows, LAMBDA row :
              Lookup(tripMap, row.trip_id) # 0 /\ Lookup(stopMap, row.stop_id) # 0)

\* a fault for comparison: the two keys are bound in each other's place
StopTimeStmtsSwapped(rows, tripMap, stopMap) ==
  [n \in DOMAIN rows |->
     [trip_pk |-> Lookup(stopMap, rows[n].stop_id),
      stop_pk |-> Lookup(tripMap, rows[n].trip_id),
      stop_sequence |-> rows[n].stop_sequence]]

StopTimeStmts(rows, tripMap, stopMap) ==
  [n \in DOMAIN rows |->
     [trip_pk |-> Lookup(tripMap, rows[n].trip_id),
      stop_pk |-> Lookup(stopMap, rows[n].stop_id),
      stop_sequence |-> rows[n].stop_sequence]]

\* 'Import stop_times chunk n'
ImportStopTimesChunk(i) ==
  /\ wf[i].pc = "stop_times"
  /\ \E k \in 1..(Len(getFileRows(i, "stop_times")) - wf[i].offset["stop_times"]) :
       LET rows == StopTimeRowsKept(ChunkRows(getFileRows(i, "stop_times"),
                                              wf[i].offset["stop_times"], k),
                                    wf[i].tripMap, wf[i].stopMap)
       IN /\ db' = batchExecute(db, "stop_times", {"stop_pk"},
                                StopTimeStmts(rows, wf[i].tripMap, wf[i].stopMap)).db
          /\ Checkpoint(i, "stop_times",
                        [wf[i] EXCEPT !.offset["stop_times"] = @ + k,
                                      !.chunkIndex["stop_times"] = @ + 1],
                        [NoResult EXCEPT !.processed = k])
  /\ LoadFrame

\* if (!fromStopPk || !toStopPk) continue;
FromToRowsKept(rows, stopMap) ==
  SelectSeq(rows, LAMBDA row :
              /\ Lookup(stopMap, row.from_stop_id) # 0
              /\ Lookup(stopMap, row.to_stop_id) # 0)

\* row.col || "": a column the file lacks reads as undefined
Optional(row, col) == IF col \in DOMAIN row THEN row[col] ELSE ""

\* routeMap[row.from_route_id || ""] ?? null and its like for the optional
\* references
TransferStmts(feedVersionId, rows, stopMap, routeMap, tripMap) ==
  [n \in DOMAIN rows |->
     [feed_version_id |-> feedVersionId,
      from_stop_pk |-> Lookup(stopMap, rows[n].from_stop_id),
      to_stop_pk |-> Lookup(stopMap, rows[n].to_stop_id),
      from_route_pk |-> Lookup(routeMap, Optional(rows[n], "from_route_id")),
      to_route_pk |-> Lookup(routeMap, Optional(rows[n], "to_route_id")),
      from_trip_pk |-> Lookup(tripMap, Optional(rows[n], "from_trip_id")),
      to_trip_pk |-> Lookup(tripMap, Optional(rows[n], "to_trip_id"))]]

\* 'Import transfers': a plain INSERT
ImportTransfers(i) ==
  /\ wf[i].pc = "transfers"
  /\ db' = batchExecute(db, "transfers", {},
                        TransferStmts(wf[i].feedVersionId,
                                      FromToRowsKept(getFileRows(i, "transfers"),
                                                     wf[i].stopMap),
                                      wf[i].stopMap, wf[i].routeMap,
                                      wf[i].tripMap)).db
  /\ Settle(i, "transfers", wf[i])
  /\ LoadFrame

\* const tripPk = tripMap[row.trip_id]; if (!tripPk) continue;
FrequencyRowsKept(rows, tripMap) ==
  SelectSeq(rows, LAMBDA row : Lookup(tripMap, row.trip_id) # 0)

FrequencyStmts(rows, tripMap) ==
  [n \in DOMAIN rows |-> [trip_pk |-> Lookup(tripMap, rows[n].trip_id)]]

\* 'Import frequencies': a plain INSERT
ImportFrequencies(i) ==
  /\ wf[i].pc = "frequencies"
  /\ db' = batchExecute(db, "frequencies", {},
                        FrequencyStmts(FrequencyRowsKept(getFileRows(i, "frequencies"),
                                                         wf[i].tripMap),
                                       wf[i].tripMap)).db
  /\ Settle(i, "frequencies", wf[i])
  /\ LoadFrame

PathwayStmts(feedVersionId, rows, stopMap) ==
  [n \in DOMAIN rows |->
     [feed_version_id |-> feedVersionId,
      pathway_id |-> nullIfEmpty(rows[n].pathway_id),
      from_stop_pk |-> Lookup(stopMap, rows[n].from_stop_id),
      to_stop_pk |-> Lookup(stopMap, rows[n].to_stop_id)]]

\* 'Import pathways'
ImportPathways(i) ==
  /\ wf[i].pc = "pathways"
  /\ db' = batchExecute(db, "pathways", {"from_stop_pk", "to_stop_pk"},
                        PathwayStmts(wf[i].feedVersionId,
                                     FromToRowsKept(getFileRows(i, "pathways"),
                                                    wf[i].stopMap),
                                     wf[i].stopMap)).db
  /\ Settle(i, "pathways", wf[i])
  /\ LoadFrame

\* fault variant of AttributionStmts: a row with an unresolved reference is
\* left out
AttributionStmtsResolved(feedVersionId, rows, agencyMap, routeMap, tripMap) ==
  LET kept == SelectSeq(rows, LAMBDA row :
                          /\ Lookup(agencyMap, row.agency_id) # 0
                          /\ Lookup(routeMap, row.route_id) # 0
                          /\ Lookup(tripMap, row.trip_id) # 0)
  IN [n \in DOMAIN kept |->
        [feed_version_id |-> feedVersionId,
         attribution_id |-> nullIfEmpty(kept[n].attribution_id),
         agency_pk |-> Lookup(agencyMap, kept[n].agency_id),
         route_pk |-> Lookup(routeMap, kept[n].route_id),
         trip_pk |-> Lookup(tripMap, kept[n].trip_id)]]

\* for (const row of attrRows) stmts.push(stmt.bind(feedVersionId, ..,
\* agencyMap[row.agency_id || ""] ?? null, routeMap[..] ?? null,
\* tripMap[..] ?? null, ..))
AttributionStmts(feedVersionId, rows, agencyMap, routeMap, tripMap) ==
  [n \in DOMAIN rows |->
     [feed_version_id |-> feedVersionId,
      attribution_id |-> nullIfEmpty(rows[n].attribution_id),
      agency_pk |-> Lookup(agencyMap, Optional(rows[n], "agency_id")),
      route_pk |-> Lookup(routeMap, Optional(rows[n], "route_id")),
      trip_pk |-> Lookup(tripMap, Optional(rows[n], "trip_id"))]]

\* 'Import attributions': a plain INSERT
ImportAttributions(i) ==
  /\ wf[i].pc = "attributions"
  /\ db' = batchExecute(db, "attributions", {},
                        AttributionStmts(wf[i].feedVersionId,
                                         getFileRows(i, "attributions"),
                                         wf[i].agencyMap, wf[i].routeMap,
                                         wf[i].tripMap)).db
  /\ Settle(i, "attributions", wf[i])
  /\ LoadFrame

\* a load step of a table this model does not hold (feed_info, levels,
\* calendar, shapes, the fare and extension tables): it only takes its turn
ImportOther(i) ==
  /\ wf[i].pc \in OtherSteps
  /\ IF wf[i].pc \in ChunkSteps
     THEN Checkpoint(i, wf[i].pc,
                     [wf[i] EXCEPT !.offset[wf[i].pc] = Len(getFileRows(i, wf[i].pc)),
                                   !.chunkIndex[wf[i].pc] = @ + 1],
                     [NoResult EXCEPT !.processed = Len(getFileRows(i, wf[i].pc))])
     ELSE Settle(i, wf[i].pc, wf[i])
  /\ UNCHANGED db
  /\ LoadFrame

\* 'Cleanup R2': list the run's prefix and delete every key under it
CleanupR2(i) ==
  /\ wf[i].pc = "cleanup"
  /\ r2' = [o \in {x \in DOMAIN r2 : x[2] # i} |-> r2[o]]
  /\ Settle(i, "cleanup", wf[i])
  /\ UNCHANGED <<db, upstream, rt, calc, runsLeft>>

Next ==
  \E i \in Instances :
    \/ \E id \in OperatorIds : StartRun(i, id)
    \/ \E bytes \in DOMAIN upstream : Download(i, bytes)
    \/ InitEnsureFeedSource(i)
    \/ InitThrowNoTimezone(i)
    \/ InitInsertVersion(i)
    \/ InitActivateExisting(i)
    \/ InitClearStaged(i)
    \/ InitDeactivateOthers(i)
    \/ InitReturn(i)
    \/ InitCrash(i)
    \/ ImportAgencies(i)
    \/ ImportRoutes(i)
    \/ ImportStopsChunk(i)
    \/ UpdateParents(i)
    \/ ImportCalendarDates(i)
    \/ ImportTripsChunk(i)
    \/ ImportStopTimesChunk(i)
    \/ ImportTransfers(i)
    \/ ImportFrequencies(i)
    \/ ImportAttributions(i)
    \/ ImportPathways(i)
    \/ ImportOther(i)
    \/ CleanupR2(i)
    \/ StepFails(i)

\* sequential runs of the import over two archives of one operator
Spec == Init /\ [][Next]_vars

\* one run of the import over one archive, the archive ranging over the
\* loader's inputs: stops.txt and trips.txt of every shape up to MaxRows rows
InitLoad ==
  /\ db = EmptyDb
  /\ r2 = <<>>
  /\ upstream \in {[b \in {"b1"} |-> f] :
                     f \in LoaderFeeds \cup {FeedA, FeedClean, FeedRefs,
                                            FeedNoTimezone}
                             \cup FeedsDated(DateStrings)}
  /\ wf = [i \in Instances |-> IdleRun]
  /\ hist = [i \in Instances |-> NoHistory]
  /\ crashes = 0
  /\ runsLeft = 1
  /\ rt = NoRealtime
  /\ calc = NoCalc

SpecLoad == InitLoad /\ [][Next]_vars

(***************************************************************************)
(* Properties                                                              *)
(***************************************************************************)
\* every step between 'Initialize feed version' and 'Cleanup R2'
LoadSteps == Steps \ {"download", "init", "cleanup"}

\* the feed_version rows that hold the content instance i downloaded
VersionsOf(i) ==
  {v \in db.feed_version :
     v.version_label = versionLabel(wf[i].id, sha256Hex(hist[i].bytes))}

IsActive(feedVersionId) ==
  \E v \in db.feed_version : v.feed_version_id = feedVersionId /\ v.is_active = 1

ActiveOf(feedSourceId) ==
  {v \in db.feed_version : v.feed_source_id = feedSourceId /\ v.is_active = 1}

\* no instance was started after instance i
Latest(i) == \A j \in Instances : j > i => wf[j].pc = "idle"

\* run() of instance i is beyond step s
Past(i, s) ==
  \/ wf[i].pc = "done"
  \/ wf[i].pc \in Steps /\ StepIndex(wf[i].pc) > StepIndex(s)

\* C1: a run whose source and archive bytes a completed run already imported
\* adds no feed_version row (exactly one row carries the label of that
\* content) and runs no table-load step.
C1_ReimportIsIdempotent ==
  \A i \in Instances :
    hist[i].prior =>
      /\ Cardinality(VersionsOf(i)) = 1
      /\ hist[i].inserted = 0
      /\ wf[i].pc \notin LoadSteps
      /\ hist[i].ran \cap LoadSteps = {}

\* a run of already imported content got to Done
C1_Witness ==
  \E i \in Instances :
    hist[i].prior /\ wf[i].pc = "done" /\ ~wf[i].isNewVersion

\* C2: in every reachable state of the store each feed_source has at most
\* one feed_version row with is_active = 1.
C2_AtMostOneActive ==
  \A s \in db.feed_source : Cardinality(ActiveOf(s.feed_source_id)) <= 1

\* C3: a version whose table-load steps are still running is not the active
\* version; is_active = 1 is only on versions whose load is complete.
C3_ActiveIsLoaded ==
  \A i \in Instances :
    (wf[i].pc \in LoadSteps /\ wf[i].isNewVersion) => ~IsActive(wf[i].feedVersionId)

\* C4: a run that inserted the feed_version row reaches Done with
\* isNewVersion = true for that row's id and with the tables loaded, also
\* when the init step crashed after the INSERT and was run again.
C4_RerunStillNew ==
  \A i \in Instances :
    (wf[i].pc = "done" /\ hist[i].inserted # 0) =>
      /\ wf[i].feedVersionId = hist[i].inserted
      /\ wf[i].isNewVersion
      /\ {"agencies", "routes"} \subseteq hist[i].ran

\* a row without its AUTOINCREMENT key
WithoutPk(t, r) == [c \in DOMAIN r \ {PkCol[t]} |-> r[c]]

\* C5: running a step body again after a crash before its checkpoint leaves
\* the store as one execution does: no table holds two rows that differ in
\* nothing but their generated key.
C5_NoDuplicateRows ==
  \A t \in Tables :
    \A x, y \in db[t] : WithoutPk(t, x) = WithoutPk(t, y) => x = y

\* C6: when a run that created a feed_version row has failed for good, the
\* row it created is not active and every version that was active when the
\* run started still is.
C6_FailureKeepsOldActive ==
  \A i \in Instances :
    (wf[i].pc = "failed" /\ hist[i].inserted # 0 /\ Latest(i)) =>
      /\ ~IsActive(hist[i].inserted)
      /\ \A v \in hist[i].activeBefore : IsActive(v)

FileOf(i) == upstream[hist[i].bytes]

\* run() of instance i loads a new version and stands in a step after s
LoadingPast(i, s) ==
  /\ wf[i].pc \in Steps
  /\ wf[i].isNewVersion
  /\ StepIndex(wf[i].pc) > StepIndex(s)

TripRowsSeen(i) == SubSeq(FileOf(i).trips, 1, wf[i].offset["trips"])

KnownRoute(i, row) == Lookup(wf[i].routeMap, row.route_id) # 0

\* C8 as stated: no trips row has a null route_pk, and the trip_id of a
\* trips.txt row with an unknown route_id is no key of the trip remapping
\* table.
C8_UnknownRouteNotInMap ==
  \A i \in Instances :
    LoadingPast(i, "routes") =>
      /\ \A t \in db.trips : t.route_pk # 0
      /\ \A row \in Range(TripRowsSeen(i)) :
           ~KnownRoute(i, row) => row.trip_id \notin DOMAIN wf[i].tripMap

\* C8, amended: no trips row has a null route_pk, every trips row and every
\* key of the trip remapping table comes from a trips.txt row with a known
\* route_id; the trip_id of a row with an unknown route_id is in the table
\* only when another row of the file has the same trip_id and a known route.
C8_UnknownRouteDropped ==
  \A i \in Instances :
    LoadingPast(i, "routes") =>
      /\ \A t \in db.trips :
           /\ t.route_pk # 0
           /\ \E row \in Range(FileOf(i).trips) :
                /\ KnownRoute(i, row)
                /\ t.trip_id = row.trip_id
                /\ t.route_pk = Lookup(wf[i].routeMap, row.route_id)
      /\ DOMAIN wf[i].tripMap \subseteq
           {row.trip_id : row \in {x \in Range(TripRowsSeen(i)) : KnownRoute(i, x)}}

\* the trips step went over a row with an unknown route_id and a row with a
\* known one
C8_Witness ==
  \E i \in Instances :
    /\ LoadingPast(i, "trips")
    /\ wf[i].tripMap # EmptyMap
    /\ \E row \in Range(TripRowsSeen(i)) :
         ~KnownRoute(i, row) /\ row.trip_id \notin DOMAIN wf[i].tripMap

KnownTrip(i, id) == Lookup(wf[i].tripMap, id) # 0

KnownStop(i, id) == Lookup(wf[i].stopMap, id) # 0

\* what a stop_times.txt row becomes in the store
StopTimeImage(i, row) ==
  <<Lookup(wf[i].tripMap, row.trip_id), Lookup(wf[i].stopMap, row.stop_id),
    row.stop_sequence>>

\* what a transfers.txt or pathways.txt row becomes in the store
FromToImage(i, row) ==
  <<Lookup(wf[i].stopMap, row.from_stop_id), Lookup(wf[i].stopMap, row.to_stop_id)>>

StopTimeRowsSeen(i) ==
  SubSeq(FileOf(i).stop_times, 1, wf[i].offset["stop_times"])

\* the rows of a from/to file whose two stop ids are known
FromToKnown(i, rows) ==
  {row \in Range(rows) : KnownStop(i, row.from_stop_id) /\ KnownStop(i, row.to_stop_id)}

\* C9: a stop_times row with an unknown trip_id or stop_id, a transfers or
\* pathways row with an unknown from/to stop id and a frequencies row with
\* an unknown trip_id are not written, and the rows around them are: once
\* the step has gone over a row whose ids are all known, that row is in the
\* store, and nothing else is.
C9_UnknownRefsDropped ==
  \A i \in Instances :
    LoadingPast(i, "trips") =>
      /\ {<<r.trip_pk, r.stop_pk, r.stop_sequence>> : r \in db.stop_times}
           \subseteq {StopTimeImage(i, row) :
                        row \in {x \in Range(FileOf(i).stop_times) :
                                   KnownTrip(i, x.trip_id) /\ KnownStop(i, x.stop_id)}}
      /\ \A row \in Range(StopTimeRowsSeen(i)) :
           (KnownTrip(i, row.trip_id) /\ KnownStop(i, row.stop_id)) =>
             \E r \in db.stop_times :
               <<r.trip_pk, r.stop_pk, r.stop_sequence>> = StopTimeImage(i, row)
      /\ {<<r.from_stop_pk, r.to_stop_pk>> : r \in db.transfers} =
           IF "transfers" \in hist[i].ran
           THEN {FromToImage(i, row) : row \in FromToKnown(i, FileOf(i).transfers)}
           ELSE {}
      /\ {<<r.pathway_id, r.from_stop_pk, r.to_stop_pk>> : r \in db.pathways} =
           IF "pathways" \in hist[i].ran
           THEN {<<row.pathway_id>> \o FromToImage(i, row) :
                   row \in FromToKnown(i, FileOf(i).pathways)}
           ELSE {}
      /\ {r.trip_pk : r \in db.frequencies} =
           IF "frequencies" \in hist[i].ran
           THEN {Lookup(wf[i].tripMap, row.trip_id) :
                   row \in {x \in Range(FileOf(i).frequencies) : KnownTrip(i, x.trip_id)}}
           ELSE {}

\* in each of the four files a row with an unknown id comes before a row
\* that was written
C9_Witness ==
  \E i \in Instances :
    /\ LoadingPast(i, "pathways")
    /\ db.stop_times # {} /\ db.transfers # {}
    /\ db.frequencies # {} /\ db.pathways # {}
    /\ ~KnownTrip(i, FileOf(i).stop_times[1].trip_id)
    /\ ~KnownStop(i, FileOf(i).transfers[1].to_stop_id)
    /\ ~KnownTrip(i, FileOf(i).frequencies[1].trip_id)
    /\ ~KnownStop(i, FileOf(i).pathways[1].from_stop_id)

\* the stops row of the version instance i loads that holds stop_id id
StopRows(i, id) ==
  {s \in db.stops : s.feed_version_id = wf[i].feedVersionId /\ s.stop_id = id}

\* C10: after the stops chunks and the parent update, every stops.txt row
\* has its stops row; the row of a stop whose parent_station names a stop of
\* the file holds that stop's stop_pk, in any file order and any chunking,
\* and the row of a stop whose parent_station names no stop of the file
\* holds a null parent.
C10_ParentsResolved ==
  \A i \in Instances :
    (wf[i].isNewVersion /\ Past(i, "parents")) =>
      LET rows == FileOf(i).stops
          ids == {row.stop_id : row \in Range(rows)}
      IN \A row \in Range(rows) :
           LET parents == {x.parent_station :
                             x \in {y \in Range(rows) : y.stop_id = row.stop_id}} \cap ids
           IN /\ Cardinality(StopRows(i, row.stop_id)) = 1
              /\ \A s \in StopRows(i, row.stop_id) :
                   IF parents = {} THEN s.parent_station = 0
                   ELSE \E p \in parents : \E a \in StopRows(i, p) :
                          s.parent_station = a.stop_pk

\* child B was read one chunk before its parent A and points at it
C10_Witness ==
  \E i \in Instances :
    /\ LoadingPast(i, "parents")
    /\ FileOf(i).stops = <<[stop_id |-> "B", parent_station |-> "A"],
                           [stop_id |-> "A", parent_station |-> ""]>>
    /\ wf[i].chunkIndex["stops"] = 2
    /\ \E b \in StopRows(i, "B") : \E a \in StopRows(i, "A") :
         b.parent_station = a.stop_pk /\ a.parent_station = 0

\* natural ids are unique per file and every reference resolves
WellFormed(feed) ==
  LET ids(rows, col) == {row[col] : row \in Range(rows)}
      unique(rows, col) == Cardinality(ids(rows, col)) = Len(rows)
  IN /\ unique(feed.stops, "stop_id")
     /\ unique(feed.routes, "route_id")
     /\ unique(feed.trips, "trip_id")
     /\ Cardinality(Range(feed.stop_times)) = Len(feed.stop_times)
     /\ \A row \in Range(feed.stops) :
          row.parent_station \in ids(feed.stops, "stop_id") \cup {""}
     /\ \A row \in Range(feed.trips) : row.route_id \in ids(feed.routes, "route_id")
     /\ \A row \in Range(feed.stop_times) :
          /\ row.trip_id \in ids(feed.trips, "trip_id")
          /\ row.stop_id \in ids(feed.stops, "stop_id")

\* the rows of table t that belong to the version instance i loads
RowsOfVersion(i, t) == {r \in db[t] : r.feed_version_id = wf[i].feedVersionId}

StopTimesOfVersion(i) ==
  {r \in db.stop_times :
     r.trip_pk \in {t.trip_pk : t \in RowsOfVersion(i, "trips")}}

MaxCycles == 2
\* executions of a fetching step body, re-runs after a death of the instance
\* between the body and its checkpoint included
MaxSyncs == 5

\* let secondsToSpread = 3600: the hour the quota is spread over
secondsToSpread == 3600
\* let requestsAllowedInWindow = 60
DefaultRequestsAllowed == 60
\* step.sleep(.. 'Rate limit reached, waiting 300s', `300 seconds`)
QuotaSleepSeconds == 300

\* the tables the poller reads and writes
RtTables == {"feed_source", "feed_version", "routes", "stops", "trips",
             "trip_updates", "service_alerts"}

\* a store with two sources: SF has an active version with route R1, stop
\* S1 and trip T1 and a retired version with the same ids; BA has a
\* feed_source row and no feed_version at all
RtStore ==
  [feed_source |-> {[feed_source_id |-> 1, source_name |-> "SF"],
                    [feed_source_id |-> 2, source_name |-> "BA"]},
   feed_version |-> {[feed_version_id |-> 1, feed_source_id |-> 1,
                      version_label |-> versionLabel("SF", sha256Hex("b1")),
                      is_active |-> 1],
                     [feed_version_id |-> 2, feed_source_id |-> 1,
                      version_label |-> versionLabel("SF", sha256Hex("b2")),
                      is_active |-> 0]},
   routes |-> {[route_pk |-> 1, feed_version_id |-> 1, route_id |-> "R1",
                agency_pk |-> 0],
               [route_pk |-> 2, feed_version_id |-> 2, route_id |-> "R1",
                agency_pk |-> 0]},
   stops |-> {[stop_pk |-> 1, feed_version_id |-> 1, stop_id |-> "S1",
               parent_station |-> 0],
              [stop_pk |-> 2, feed_version_id |-> 2, stop_id |-> "S1",
               parent_station |-> 0]},
   trips |-> {[trip_pk |-> 1, feed_version_id |-> 1, trip_id |-> "T1",
               route_pk |-> 1],
              [trip_pk |-> 2, feed_version_id |-> 2, trip_id |-> "T1",
               route_pk |-> 2]},
   trip_updates |-> {},
   service_alerts |-> {},
   sqlite_sequence |-> [t \in RtTables |-> 0]]

\* getFeedContext(db, agencyId): the source's id and the id of a version
\* with is_active = 1, null (0) when there is none; .first() takes any one
FeedContexts(d, agencyId) ==
  LET source == CHOOSE f \in d.feed_source : f.source_name = agencyId
      active == {v \in d.feed_version :
                   v.feed_source_id = source.feed_source_id /\ v.is_active = 1}
  IN IF active = {}
     THEN {[feedSourceId |-> source.feed_source_id, feedVersionId |-> 0]}
     ELSE {[feedSourceId |-> source.feed_source_id,
            feedVersionId |-> v.feed_version_id] : v \in active}

\* a fault for comparison: the look-up leaves the version out, the Map keeps
\* the last row of an id
PkMapAnyVersion(d, t, idCol, feedVersionId, ids) ==
  LET hit == {r \in d[t] : r[idCol] \in ids}
  IN [id \in {r[idCol] : r \in hit} |->
        (CHOOSE r \in hit : /\ r[idCol] = id
                            /\ \A x \in hit : x[idCol] = id =>
                                             x[PkCol[t]] <= r[PkCol[t]])[PkCol[t]]]

\* SELECT <id>, <pk> FROM <table> WHERE feed_version_id = ? AND <id> IN (..)
\* collected into a Map
PkMap(d, t, idCol, feedVersionId, ids) ==
  LET hit == {r \in d[t] : r.feed_version_id = feedVersionId /\ r[idCol] \in ids}
  IN [id \in {r[idCol] : r \in hit} |->
        (CHOOSE r \in hit : r[idCol] = id)[PkCol[t]]]

(***************************************************************************)
(* GTFS-realtime messages the upstream may answer with.  A header without  *)
(* timestamp has timestamp 0; an entity carries a tripUpdate or an alert.  *)
(***************************************************************************)
\* hasDelay: the message carries the optional field tripUpdate.delay; the
\* decoded field reads 0 when it does not
TripUpdateEntity(tripId, delay, firstArrivalDelay, rel) ==
  [kind |-> "tripUpdate", id |-> tripId, tripId |-> tripId, delay |-> delay,
   hasDelay |-> delay # 0,
   stopTimeUpdate |-> IF firstArrivalDelay = 0 THEN <<>>
                      ELSE <<[arrival |-> firstArrivalDelay, departure |-> 0]>>,
   scheduleRelationship |-> rel]

\* a trip update that carries a top-level delay of 0
TripUpdateZeroDelay(tripId, firstArrivalDelay, rel) ==
  [TripUpdateEntity(tripId, 0, firstArrivalDelay, rel) EXCEPT !.hasDelay = TRUE]

\* a trip update without top-level delay whose first stop-time update has a
\* departure delay only
TripUpdateDeparture(tripId, firstDepartureDelay, rel) ==
  [TripUpdateEntity(tripId, 0, 0, rel) EXCEPT
     !.stopTimeUpdate = <<[arrival |-> 0, departure |-> firstDepartureDelay]>>]

AlertEntity(id, informed, end) ==
  [kind |-> "alert", id |-> id, informedEntity |-> informed, end |-> end]

InformedRoute(routeId) == [routeId |-> routeId, stopId |-> "", tripId |-> ""]

InformedStop(stopId) == [routeId |-> "", stopId |-> stopId, tripId |-> ""]

TripUpdateMessages ==
  {[timestamp |-> 100, entity |-> <<TripUpdateEntity("T1", 5, 0, 0)>>],
   [timestamp |-> 200, entity |-> <<TripUpdateEntity("T1", 5, 0, 0)>>],
   [timestamp |-> 100, entity |-> <<TripUpdateEntity("T1", 0, 9, 3),
                                    TripUpdateEntity("T1", 5, 0, 0)>>],
   [timestamp |-> 0,   entity |-> <<TripUpdateEntity("TX", 0, 0, 0),
                                    AlertEntity("X", <<>>, 0)>>],
   [timestamp |-> 300, entity |-> <<TripUpdateZeroDelay("T1", 9, 0),
                                    TripUpdateDeparture("TX", 7, 0)>>]}

AlertMessages ==
  {[timestamp |-> 100, entity |-> <<>>],
   [timestamp |-> 100, entity |-> <<AlertEntity("X", <<>>, 0)>>],
   [timestamp |-> 100,
    entity |-> <<AlertEntity("Y", <<InformedRoute("R1"), InformedStop("SX")>>, 5000),
                 TripUpdateEntity("T1", 5, 0, 0)>>],
   [timestamp |-> 100, entity |-> <<AlertEntity("", <<>>, 0)>>]}

(***************************************************************************)
(* "Sync TripUpdates <agency>": the statements bound for one message and   *)
(* their execution.                                                        *)
(***************************************************************************)
\* header.timestamp, or the clock when the header carries none
FeedTimestamp(msg, now) == IF msg.timestamp # 0 THEN msg.timestamp ELSE now

\* scheduleRelationship 1, 2, 3, anything else
TripStatus(rel) ==
  IF rel = 1 THEN "ADDED"
  ELSE IF rel = 2 THEN "UNSCHEDULED"
  ELSE IF rel = 3 THEN "CANCELED"
  ELSE "SCHEDULED"

\* tu.delay || first stopTimeUpdate's arrival delay || departure delay || 0
EffectiveDelay(e) ==
  IF e.delay # 0 THEN e.delay
  ELSE IF Len(e.stopTimeUpdate) > 0
       THEN IF e.stopTimeUpdate[1].arrival # 0 THEN e.stopTimeUpdate[1].arrival
            ELSE e.stopTimeUpdate[1].departure
       ELSE 0

\* the entities a statement is bound for: those with a tripUpdate and a trip id
TripEntities(msg) ==
  SelectSeq(msg.entity, LAMBDA e : e.kind = "tripUpdate" /\ e.tripId # "")

\* a fault for comparison: an unknown trip is given the key 1
TripPkOrOne(tripMap, tripId) == IF tripId \in DOMAIN tripMap THEN tripMap[tripId] ELSE 1

\* tripMap.get(tripId) || null
TripPkOrNull(tripMap, tripId) == Lookup(tripMap, tripId)

TripUpdateValues(e, ctx, tripMap, timestamp) ==
  [feed_source_id |-> ctx.feedSourceId, trip_id |-> e.tripId,
   trip_pk |-> TripPkOrNull(tripMap, e.tripId), delay |-> EffectiveDelay(e),
   status |-> TripStatus(e.scheduleRelationship), updated_time |-> timestamp]

\* a fault for comparison: INSERT OR REPLACE, the colliding row gives way
InsertOrReplace(d, vals) ==
  LET pk == d.sqlite_sequence["trip_updates"] + 1
      hit == {r \in d.trip_updates : /\ r.feed_source_id = vals.feed_source_id
                                     /\ r.trip_id = vals.trip_id
                                     /\ r.updated_time = vals.updated_time}
  IN [d EXCEPT !.trip_updates = (@ \ hit) \cup {vals @@ ("update_pk" :> pk)},
               !.sqlite_sequence["trip_updates"] = pk]

\* a fault for comparison: a trip the version does not know is registered
\* in trips along with its observation
InsertOrIgnoreRegistering(d, vals) ==
  IF \E r \in d.trip_updates : /\ r.feed_source_id = vals.feed_source_id
                               /\ r.trip_id = vals.trip_id
                               /\ r.updated_time = vals.updated_time
  THEN d
  ELSE LET pk == d.sqlite_sequence["trip_updates"] + 1 IN
       [d EXCEPT !.trip_updates = @ \cup {vals @@ ("update_pk" :> pk)},
                 !.sqlite_sequence["trip_updates"] = pk,
                 !.trips = IF vals.trip_pk # 0 THEN @
                           ELSE @ \cup {[trip_pk |-> d.sqlite_sequence["trips"] + 1,
                                         feed_version_id |-> 1,
                                         trip_id |-> vals.trip_id,
                                         route_pk |-> 0]}]

\* INSERT OR IGNORE INTO trip_updates: a row that collides with the unique
\* index (feed_source_id, trip_id, updated_time) is dropped
InsertOrIgnore(d, vals) ==
  IF \E r \in d.trip_updates : /\ r.feed_source_id = vals.feed_source_id
                               /\ r.trip_id = vals.trip_id
                               /\ r.updated_time = vals.updated_time
  THEN d
  ELSE LET pk == d.sqlite_sequence["trip_updates"] + 1 IN
       [d EXCEPT !.trip_updates = @ \cup {vals @@ ("update_pk" :> pk)},
                 !.sqlite_sequence["trip_updates"] = pk]

RECURSIVE RunTripStatements(_, _)
RunTripStatements(d, stmts) ==
  IF stmts = <<>> THEN d
  ELSE RunTripStatements(InsertOrIgnore(d, Head(stmts)), Tail(stmts))

\* the step body after the fetch: nothing at all without an active version
SyncTripUpdatesBody(d, ctx, msg, now) ==
  IF ctx.feedVersionId = 0 THEN d
  ELSE LET ents == TripEntities(msg)
           tripMap == PkMap(d, "trips", "trip_id", ctx.feedVersionId,
                            {ents[n].tripId : n \in DOMAIN ents})
           timestamp == FeedTimestamp(msg, now)
       IN RunTripStatements(d,
            [n \in DOMAIN ents |-> TripUpdateValues(ents[n], ctx, tripMap, timestamp)])

(***************************************************************************)
(* "Sync ServiceAlerts <agency>"                                           *)
(***************************************************************************)
\* ids of the entities with an alert and a non-empty id
CurrentAlertIds(msg) ==
  {e.id : e \in {x \in Range(msg.entity) : x.kind = "alert" /\ x.id # ""}}

\* SELECT alert_pk, alert_id FROM service_alerts WHERE feed_source_id = ?
\* AND (end_time IS NULL OR end_time > ?)
ActiveAlerts(d, feedSourceId, now) ==
  {r \in d.service_alerts :
     r.feed_source_id = feedSourceId /\ (r.end_time = 0 \/ r.end_time > now)}

\* a fault for comparison: no open row is closed
ToCloseNone(d, feedSourceId, msg, now) == {}

\* if (row.alert_id && !currentAlertIds.has(row.alert_id))
ToClose(d, feedSourceId, msg, now) ==
  {r \in ActiveAlerts(d, feedSourceId, now) :
     r.alert_id # "" /\ r.alert_id \notin CurrentAlertIds(msg)}

\* UPDATE service_alerts SET end_time = ? WHERE alert_pk = ?, for each of them
CloseMissing(d, feedSourceId, msg, now) ==
  LET closing == ToClose(d, feedSourceId, msg, now) IN
  [d EXCEPT !.service_alerts =
     {IF r \in closing THEN [r EXCEPT !.end_time = now] ELSE r : r \in @}]

\* a fault for comparison: only the first reference of an alert is stored
InformedFirstOnly(e) ==
  IF Len(e.informedEntity) > 0 THEN <<e.informedEntity[1]>>
  ELSE <<[routeId |-> "", stopId |-> "", tripId |-> ""]>>

\* informedEntity when it is non-empty, else one empty reference
InformedOrOne(e) ==
  IF Len(e.informedEntity) > 0 THEN e.informedEntity
  ELSE <<[routeId |-> "", stopId |-> "", tripId |-> ""]>>

AlertEntities(msg) == SelectSeq(msg.entity, LAMBDA e : e.kind = "alert")

RECURSIVE Flatten(_)
Flatten(ss) == IF ss = <<>> THEN <<>> ELSE Head(ss) \o Flatten(Tail(ss))

\* one statement per informed-entity reference of every alert entity; the
\* keys are looked up only when the source has an active version
AlertStatements(d, ctx, msg) ==
  LET ents == AlertEntities(msg)
      refs == UNION {Range(ents[n].informedEntity) : n \in DOMAIN ents}
      none == [x \in {} |-> 0]
      has == ctx.feedVersionId # 0
      routeMap == IF has THEN PkMap(d, "routes", "route_id", ctx.feedVersionId,
                                    {x.routeId : x \in refs} \ {""}) ELSE none
      stopMap == IF has THEN PkMap(d, "stops", "stop_id", ctx.feedVersionId,
                                   {x.stopId : x \in refs} \ {""}) ELSE none
      tripMap == IF has THEN PkMap(d, "trips", "trip_id", ctx.feedVersionId,
                                   {x.tripId : x \in refs} \ {""}) ELSE none
      Row(e, ie) ==
        [feed_source_id |-> ctx.feedSourceId, alert_id |-> e.id,
         end_time |-> e.end,
         affected_route_pk |-> Lookup(routeMap, ie.routeId),
         affected_stop_pk |-> Lookup(stopMap, ie.stopId),
         affected_trip_pk |-> Lookup(tripMap, ie.tripId)]
  IN Flatten([n \in DOMAIN ents |->
                LET ies == InformedOrOne(ents[n])
                IN [k \in DOMAIN ies |-> Row(ents[n], ies[k])]])

\* INSERT INTO service_alerts (..) VALUES (..): always a new row
RECURSIVE RunAlertStatements(_, _)
RunAlertStatements(d, stmts) ==
  IF stmts = <<>> THEN d
  ELSE LET pk == d.sqlite_sequence["service_alerts"] + 1 IN
       RunAlertStatements(
         [d EXCEPT !.service_alerts = @ \cup {Head(stmts) @@ ("alert_pk" :> pk)},
                   !.sqlite_sequence["service_alerts"] = pk],
         Tail(stmts))

SyncServiceAlertsBody(d, ctx, msg, now) ==
  LET closed == CloseMissing(d, ctx.feedSourceId, msg, now)
  IN RunAlertStatements(closed, AlertStatements(closed, ctx, msg))

(***************************************************************************)
(* The upstream's request quota, as the poller's fetch meets it.  The      *)
(* upstream counts requests per window; a request beyond the quota is      *)
(* answered with a non-ok status.  limit = 0: the upstream sends no        *)
(* RateLimit headers and does not count.  rt.zeroSeen: the latest response *)
(* of this cycle reported zero remaining requests; rt.calledAfterZero: a   *)
(* request was sent after such a response; rt.fetchedExhausted: such a     *)
(* request was sent before the window had reset and was turned away.       *)
(* rt.paced: the seconds of pacing sleep since the latest fetch of the     *)
(* instance, -1 before its first fetch; rt.last.paced: the same as the     *)
(* latest fetch found it.                                                  *)
(***************************************************************************)
\* event.timestamp of an instance: early, late and in the last minute of an
\* hour
StartTimes == {3600, 7000, 7150}

\* the RateLimit-Limit the upstream announces (0: no header)
RateLimitLimits == {0, 60, 120}

\* the quota as a request arriving at `now` finds it
QuotaAt(q, now) ==
  IF q.limit # 0 /\ now >= q.windowEnd
  THEN [q EXCEPT !.remaining = q.limit, !.windowEnd = now + secondsToSpread]
  ELSE q

\* !response.ok: the request is beyond the quota
Rejected(q, now) == QuotaAt(q, now).limit # 0 /\ QuotaAt(q, now).remaining = 0

\* the quota after an accepted request
QuotaAfter(q, now) ==
  IF q.limit = 0 THEN q
  ELSE [QuotaAt(q, now) EXCEPT !.remaining = @ - 1]

\* parseInt(header) or null (-1) for RateLimit-Remaining, null (0) for
\* RateLimit-Limit
RateLimitRemaining(q, now) ==
  IF q.limit = 0 THEN -1 ELSE QuotaAfter(q, now).remaining

\* Math.floor(secondsToSpread / requestsAllowedInWindow)
IntervalSeconds(requestsAllowedInWindow) ==
  secondsToSpread \div requestsAllowedInWindow

NoLast == [step |-> "none"]

\* new Date(start); setHours(getHours() + 1, 0, 0, 0)
CutoffTime(start) == ((start \div 3600) + 1) * 3600

RtFrame == UNCHANGED <<r2, upstream, wf, hist, crashes, runsLeft, calc>>

\* IMPORT_REALTIME_WORKFLOW.create(): by the cron trigger or /realtime-workflow
CreateRealtime ==
  /\ rt.pc \in {"idle", "done", "errored"}
  /\ rt.cycles < MaxCycles
  /\ \E start \in StartTimes :
       /\ start >= rt.now
       /\ rt' = [rt EXCEPT !.pc = "fetchAgencies", !.cycles = @ + 1,
                           !.now = start, !.cutoffTime = CutoffTime(start),
                           !.zeroSeen = FALSE, !.agencies = <<>>, !.i = 0,
                           !.paced = -1]
  /\ UNCHANGED db
  /\ RtFrame

\* SELECT source_name FROM feed_source, in rowid order
SourceNames(d) ==
  LET ids == {f.feed_source_id : f \in d.feed_source}
      ord == CHOOSE q \in [1..Cardinality(ids) -> ids] :
               \A m, n \in 1..Cardinality(ids) : m < n => q[m] < q[n]
  IN [n \in 1..Cardinality(ids) |->
        (CHOOSE f \in d.feed_source : f.feed_source_id = ord[n]).source_name]

\* the head of the loop over the agencies: past the cutoff the run returns
LoopHead(r, i) ==
  IF i > Len(r.agencies) \/ r.now > r.cutoffTime
  THEN [r EXCEPT !.pc = "done", !.i = i]
  ELSE [r EXCEPT !.pc = "tripUpdates", !.i = i]

\* step "Fetch Agencies", then the first loop head
FetchAgencies ==
  /\ rt.pc = "fetchAgencies"
  /\ rt' = LoopHead([rt EXCEPT !.agencies = SourceNames(db),
                               !.requestsAllowedInWindow = DefaultRequestsAllowed], 1)
  /\ UNCHANGED db
  /\ RtFrame

\* a fetch the upstream turns away: the step throws until its retries are
\* used up and the instance ends in error
FetchRejected ==
  /\ rt.pc \in {"tripUpdates", "serviceAlerts"}
  /\ Rejected(rt.quota, rt.now)
  /\ rt' = [rt EXCEPT !.pc = "errored", !.calledAfterZero = @ \/ rt.zeroSeen,
                      !.fetchedExhausted = @ \/ rt.zeroSeen]
  /\ UNCHANGED db
  /\ RtFrame

\* the part of a fetching step common to both feeds: the quota is drawn on,
\* the step's result is kept, or the instance dies before the checkpoint
\* and the body runs again
Fetched(r, step, msg, ctx, before, crash, nextPc) ==
  [r EXCEPT !.quota = QuotaAfter(r.quota, r.now),
            !.calledAfterZero = @ \/ r.zeroSeen,
            !.zeroSeen = IF r.quota.limit = 0 THEN FALSE
                         ELSE QuotaAfter(r.quota, r.now).remaining = 0,
            !.last = [step |-> step, source |-> r.agencies[r.i], at |-> r.now,
                      msg |-> msg, ctx |-> ctx, before |-> before,
                      paced |-> r.paced],
            !.paced = 0,
            !.syncs = @ + 1,
            !.pc = IF crash THEN r.pc ELSE nextPc]

\* step "[agency] Sync TripUpdates" and the code up to the next step
SyncTripUpdates ==
  /\ rt.pc = "tripUpdates"
  /\ ~Rejected(rt.quota, rt.now)
  /\ rt.syncs < MaxSyncs
  /\ \E msg \in TripUpdateMessages, crash \in BOOLEAN,
        ctx \in FeedContexts(db, rt.agencies[rt.i]) :
       /\ db' = SyncTripUpdatesBody(db, ctx, msg, rt.now)
       /\ rt' = [Fetched(rt, "tripUpdates", msg, ctx, db.trip_updates, crash,
                         IF RateLimitRemaining(rt.quota, rt.now) = 0
                         THEN "tuQuotaSleep" ELSE "tuSleep")
                   EXCEPT !.requestsAllowedInWindow =
                            IF ~crash /\ rt.quota.limit # 0 THEN rt.quota.limit ELSE @]
  /\ RtFrame

\* step.sleep "TripUpdates: Rate limit reached, waiting 300s", then the
\* cutoff test
TuQuotaSleep ==
  /\ rt.pc = "tuQuotaSleep"
  /\ rt' = [rt EXCEPT !.now = @ + QuotaSleepSeconds,
                      !.pc = IF rt.now + QuotaSleepSeconds > rt.cutoffTime
                             THEN "done" ELSE "tuSleep"]
  /\ UNCHANGED db
  /\ RtFrame

\* step.sleep "Sleep after TripUpdates"
TuSleep ==
  /\ rt.pc = "tuSleep"
  /\ rt' = [rt EXCEPT !.now = @ + IntervalSeconds(rt.requestsAllowedInWindow),
                      !.paced = @ + IntervalSeconds(rt.requestsAllowedInWindow),
                      !.pc = "serviceAlerts"]
  /\ UNCHANGED db
  /\ RtFrame

\* after the ServiceAlerts step and its quota sleep: the sleep between two
\* agencies, or the end of the loop after the last one
AfterAlerts(r) ==
  IF r.i < Len(r.agencies) THEN "saSleep" ELSE "done"

\* step "[agency] Sync ServiceAlerts" and the code up to the next step
SyncServiceAlerts ==
  /\ rt.pc = "serviceAlerts"
  /\ ~Rejected(rt.quota, rt.now)
  /\ rt.syncs < MaxSyncs
  /\ \E msg \in AlertMessages, crash \in BOOLEAN,
        ctx \in FeedContexts(db, rt.agencies[rt.i]) :
       /\ db' = SyncServiceAlertsBody(db, ctx, msg, rt.now)
       /\ rt' = Fetched(rt, "serviceAlerts", msg, ctx, db.service_alerts, crash,
                        IF RateLimitRemaining(rt.quota, rt.now) = 0
                        THEN "saQuotaSleep" ELSE AfterAlerts(rt))
  /\ RtFrame

\* step.sleep "ServiceAlerts: Rate limit reached, waiting 300s", then the
\* cutoff test
SaQuotaSleep ==
  /\ rt.pc = "saQuotaSleep"
  /\ rt' = [rt EXCEPT !.now = @ + QuotaSleepSeconds,
                      !.pc = IF rt.now + QuotaSleepSeconds > rt.cutoffTime
                             THEN "done" ELSE AfterAlerts(rt)]
  /\ UNCHANGED db
  /\ RtFrame

\* step.sleep "Sleep after ServiceAlerts", then the next loop head
SaSleep ==
  /\ rt.pc = "saSleep"
  /\ rt' = LoopHead([rt EXCEPT !.now = @ + IntervalSeconds(rt.requestsAllowedInWindow),
                               !.paced = @ + IntervalSeconds(rt.requestsAllowedInWindow)],
                    rt.i + 1)
  /\ UNCHANGED db
  /\ RtFrame

InitRT ==
  /\ db = RtStore
  /\ r2 = <<>>
  /\ upstream = <<>>
  /\ wf = [i \in Instances |-> IdleRun]
  /\ hist = [i \in Instances |-> NoHistory]
  /\ crashes = 0
  /\ runsLeft = 0
  /\ calc = NoCalc
  /\ \E limit \in RateLimitLimits, remaining \in 1..2, early \in BOOLEAN :
       rt = [pc |-> "idle", cycles |-> 0, syncs |-> 0, now |-> 0,
             cutoffTime |-> 0, agencies |-> <<>>, i |-> 0,
             requestsAllowedInWindow |-> DefaultRequestsAllowed,
             quota |-> [limit |-> limit,
                        remaining |-> IF limit = 0 THEN 0 ELSE remaining,
                        windowEnd |-> IF early THEN 3800 ELSE 7200],
             zeroSeen |-> FALSE, calledAfterZero |-> FALSE,
             fetchedExhausted |-> FALSE, paced |-> -1, last |-> NoLast]

NextRT ==
  \/ CreateRealtime
  \/ FetchAgencies
  \/ FetchRejected
  \/ SyncTripUpdates
  \/ TuQuotaSleep
  \/ TuSleep
  \/ SyncServiceAlerts
  \/ SaQuotaSleep
  \/ SaSleep

SpecRT == InitRT /\ [][NextRT]_vars

(***************************************************************************)
(* Properties of the real-time poller.  rt.last describes the latest       *)
(* execution of a fetching step body: the step, the source, the clock, the *)
(* message, the feed context and the table as it was before the body.      *)
(***************************************************************************)
LastWas(step) == rt.pc # "none" /\ rt.last.step = step

\* the stored rows of an observation: source, trip id and feed timestamp
StoredAs(feedSourceId, tripId, timestamp) ==
  {r \in db.trip_updates : /\ r.feed_source_id = feedSourceId
                           /\ r.trip_id = tripId
                           /\ r.updated_time = timestamp}

\* the trip updates the latest sync was handed
LastUpdates == Range(TripEntities(rt.last.msg))

LastTimestamp == FeedTimestamp(rt.last.msg, rt.last.at)

\* C12: after every trip-update sync each update of its message is stored
\* under its (source, trip id, feed timestamp), beside the rows stored for
\* the same source and trip under other timestamps, and every row stored
\* before the sync is still there unchanged.
C12_ObservationsKept ==
  LastWas("tripUpdates") =>
    /\ rt.last.before \subseteq db.trip_updates
    /\ \A e \in LastUpdates :
         StoredAs(rt.last.ctx.feedSourceId, e.tripId, LastTimestamp) # {}

\* the part of C12 the code keeps: no sync changes or removes a stored row
RowsNeverChange ==
  LastWas("tripUpdates") => rt.last.before \subseteq db.trip_updates

\* the other part, for a source with an active version
ObservationsKeptWithVersion ==
  LastWas("tripUpdates") /\ rt.last.ctx.feedVersionId # 0 =>
    \A e \in LastUpdates :
      StoredAs(rt.last.ctx.feedSourceId, e.tripId, LastTimestamp) # {}

\* the first update of the latest message that names the trip
FirstUpdateOf(tripId) ==
  LET ents == TripEntities(rt.last.msg)
      n == CHOOSE k \in DOMAIN ents :
             ents[k].tripId = tripId /\ \A j \in 1..(k - 1) : ents[j].tripId # tripId
  IN ents[n]

\* the rows stored before the latest sync under a triple its message repeats
StoredBefore ==
  {r \in rt.last.before :
     /\ r.feed_source_id = rt.last.ctx.feedSourceId
     /\ r.updated_time = LastTimestamp
     /\ \E e \in LastUpdates : e.tripId = r.trip_id}

C16_NoVersionStillRecorded ==
  LastWas("tripUpdates") /\ rt.last.ctx.feedVersionId = 0 =>
    \A e \in LastUpdates :
      \E r \in StoredAs(rt.last.ctx.feedSourceId, e.tripId, LastTimestamp) :
        r.trip_pk = 0

\* the trip ids of the active version the latest sync worked with
TripIdsOfLastVersion ==
  {t.trip_id : t \in {x \in db.trips : x.feed_version_id = rt.last.ctx.feedVersionId}}

\* C17: after a trip-update sync of a source with an active version, an
\* update whose trip id is no trip of that version is stored, and the row
\* the sync inserted for it has trip_pk null.
C17_UnknownTripStoredNull ==
  LastWas("tripUpdates") /\ rt.last.ctx.feedVersionId # 0 =>
    \A e \in LastUpdates :
      e.tripId \notin TripIdsOfLastVersion =>
        LET rows == StoredAs(rt.last.ctx.feedSourceId, e.tripId, LastTimestamp)
        IN /\ rows # {}
           /\ \A r \in rows \ rt.last.before : r.trip_pk = 0

\* a sync with an active version that inserted a row for an unknown trip
C17_Witness ==
  /\ LastWas("tripUpdates")
  /\ rt.last.ctx.feedVersionId # 0
  /\ \E e \in LastUpdates :
       /\ e.tripId \notin TripIdsOfLastVersion
       /\ \E r \in db.trip_updates \ rt.last.before :
            r.trip_id = e.tripId /\ r.trip_pk = 0

\* the alert entities of the latest snapshot and their ids
LastAlerts == AlertEntities(rt.last.msg)

SnapshotIds == {LastAlerts[n].id : n \in DOMAIN LastAlerts}

\* a row of the synced source that was open at the sync time
WasOpen(r) ==
  /\ r.feed_source_id = rt.last.ctx.feedSourceId
  /\ (r.end_time = 0 \/ r.end_time > rt.last.at)

\* the rows now stored under the key of a row
NowAt(r) == {x \in db.service_alerts : x.alert_pk = r.alert_pk}

InsertedAlerts ==
  {r \in db.service_alerts :
     \A b \in rt.last.before : b.alert_pk # r.alert_pk}

\* the key a reference resolves to in the version the sync worked with
ResolvedPk(t, idCol, id) ==
  LET hit == {x \in db[t] : x.feed_version_id = rt.last.ctx.feedVersionId
                            /\ x[idCol] = id}
  IN IF id = "" \/ rt.last.ctx.feedVersionId = 0 \/ hit = {} THEN 0
     ELSE (CHOOSE x \in hit : TRUE)[PkCol[t]]

\* the number of rows a sequence of alert entities calls for
RECURSIVE RowsCalledFor(_)
RowsCalledFor(ents) ==
  IF ents = <<>> THEN 0
  ELSE (IF Len(Head(ents).informedEntity) = 0 THEN 1
        ELSE Len(Head(ents).informedEntity)) + RowsCalledFor(Tail(ents))

C20_NoCallAfterZero ==
  rt.pc # "none" => ~rt.calledAfterZero /\ ~rt.fetchedExhausted

\* what the code does keep: once the step that met a response with zero
\* remaining requests is checkpointed, the instance has slept 300 seconds
\* before it goes on
PausedAfterZero ==
  rt.pc \in {"tuSleep", "saSleep"} /\ rt.zeroSeen
    => rt.now >= rt.last.at + QuotaSleepSeconds

(***************************************************************************)
(* parseGtfsTime.  A string is a sequence of characters; a result is       *)
(* <<"null">>, <<"nan">> or <<"num", n>>.                                  *)
(***************************************************************************)
Digits == <<"0", "1", "2", "3", "4", "5", "6", "7", "8", "9">>

IsDigit(c) == \E n \in DOMAIN Digits : Digits[n] = c

DigitValue(c) == (CHOOSE n \in DOMAIN Digits : Digits[n] = c) - 1

\* timeStr.split(":")
RECURSIVE SplitColon(_)
SplitColon(str) ==
  IF \A n \in DOMAIN str : str[n] # ":" THEN <<str>>
  ELSE LET k == CHOOSE n \in DOMAIN str :
                  str[n] = ":" /\ \A j \in 1..(n - 1) : str[j] # ":"
       IN <<SubSeq(str, 1, k - 1)>> \o SplitColon(SubSeq(str, k + 1, Len(str)))

\* the value of the longest prefix of digits, read left to right
RECURSIVE DigitsPrefix(_, _)
DigitsPrefix(str, acc) ==
  IF str = <<>> \/ ~IsDigit(Head(str)) THEN acc
  ELSE DigitsPrefix(Tail(str), acc * 10 + DigitValue(Head(str)))

\* parseInt(str): leading blanks are skipped, then the digits up to the
\* first other character; NaN when there is no digit
RECURSIVE parseInt(_)
parseInt(str) ==
  IF str = <<>> THEN <<"nan">>
  ELSE IF Head(str) = " " THEN parseInt(Tail(str))
  ELSE IF ~IsDigit(Head(str)) THEN <<"nan">>
  ELSE <<"num", DigitsPrefix(str, 0)>>

\* h * 3600 + m * 60 + s in floating point: NaN as soon as one part is NaN
TimeSum(h, m, sec) ==
  IF h[1] = "nan" \/ m[1] = "nan" \/ sec[1] = "nan" THEN <<"nan">>
  ELSE <<"num", h[2] * 3600 + m[2] * 60 + sec[2]>>

\* a fault for comparison: the hour wraps at 24
parseGtfsTimeWrapping(timeStr) ==
  IF timeStr = <<>> THEN <<"null">>
  ELSE LET parts == SplitColon(timeStr) IN
       IF Len(parts) < 2 THEN <<"null">>
       ELSE LET h == parseInt(parts[1]) IN
            TimeSum(IF h[1] = "num" THEN <<"num", h[2] % 24>> ELSE h,
                    parseInt(parts[2]),
                    IF Len(parts) > 2 THEN parseInt(parts[3]) ELSE <<"num", 0>>)

parseGtfsTime(timeStr) ==
  IF timeStr = <<>> THEN <<"null">>
  ELSE LET parts == SplitColon(timeStr) IN
       IF Len(parts) < 2 THEN <<"null">>
       ELSE TimeSum(parseInt(parts[1]), parseInt(parts[2]),
                    IF Len(parts) > 2 THEN parseInt(parts[3]) ELSE <<"num", 0>>)

\* two-digit fields, hours above 23 among them
TimeFields ==
  {<<"0", "0">>, <<"0", "5">>, <<"2", "3">>, <<"2", "5">>, <<"3", "0">>, <<"5", "9">>}

\* the time strings parsed: HH:MM:SS, HH:MM, a lone field, the empty string
\* and strings with a part that is no number
TimeStrings ==
  {a \o <<":">> \o b \o <<":">> \o c : a \in TimeFields, b \in TimeFields, c \in TimeFields}
    \cup {a \o <<":">> \o b : a \in TimeFields, b \in TimeFields}
    \cup TimeFields
    \cup {<<>>, <<":">>, <<"x", ":", "3", "0">>, <<" ", "7", ":", "3", "0", ":", "1", "x">>}

\* stop_times rows hand arrival_time / departure_time to parseGtfsTime
ParseTime ==
  /\ calc.pc = "time"
  /\ calc' = [calc EXCEPT !.pc = "parsed", !.result = parseGtfsTime(calc.timeStr)]
  /\ UNCHANGED <<db, r2, upstream, wf, hist, crashes, runsLeft, rt>>

InitTime ==
  /\ db = EmptyDb
  /\ r2 = <<>>
  /\ upstream = <<>>
  /\ wf = [i \in Instances |-> IdleRun]
  /\ hist = [i \in Instances |-> NoHistory]
  /\ crashes = 0
  /\ runsLeft = 0
  /\ rt = NoRealtime
  /\ \E str \in TimeStrings : calc = [pc |-> "time", timeStr |-> str, result |-> <<"none">>]

NextTime == ParseTime

SpecTime == InitTime /\ [][NextTime]_vars

\* a string of the form HH:MM:SS
IsHhMmSs(str) ==
  /\ Len(str) = 8
  /\ str[3] = ":" /\ str[6] = ":"
  /\ \A n \in {1, 2, 4, 5, 7, 8} : IsDigit(str[n])

\* the number two digits at positions n and n + 1 write
TwoDigits(str, n) == 10 * DigitValue(str[n]) + DigitValue(str[n + 1])

\* C19: parseGtfsTime gives HH*3600 + MM*60 + SS for a string HH:MM:SS,
\* whatever the hour, and null, which is not the number 0, for the empty
\* string.
C19_SecondsOfDay ==
  calc.pc = "parsed" =>
    /\ IsHhMmSs(calc.timeStr) =>
         calc.result = <<"num", TwoDigits(calc.timeStr, 1) * 3600
                                  + TwoDigits(calc.timeStr, 4) * 60
                                  + TwoDigits(calc.timeStr, 7)>>
    /\ calc.timeStr = <<>> => calc.result = <<"null">> /\ calc.result # <<"num", 0>>

\* '25:30:00' parsed to 91800
C19_Witness ==
  /\ calc.pc = "parsed"
  /\ calc.timeStr = <<"2", "5", ":", "3", "0", ":", "0", "0">>
  /\ calc.result = <<"num", 91800>>

(***************************************************************************)
(* The chunk loop of a large table (stop_times), on the bytes of the file. *)
(* A file is a sequence of characters; "E" stands for a character whose    *)
(* UTF-8 encoding has two bytes (E1, E2), every other character has one,   *)
(* "n" is the line feed.  A range read returns bytes, .text() decodes      *)
(* them, and a byte sequence that is no complete character decodes to the  *)
(* replacement character "?".                                              *)
(***************************************************************************)
\* characters after the header line of a file
MaxFileChars == 4
\* the sizes a range read may have, 1 .. MaxChunkSize bytes
MaxChunkSize == 4
\* range: { length: 4096 } of the header re-read
HeadRangeLength == 4096

RECURSIVE Bytes(_)
Bytes(str) ==
  IF str = <<>> THEN <<>>
  ELSE (IF Head(str) = "E" THEN <<"E1", "E2">> ELSE <<Head(str)>>) \o Bytes(Tail(str))

\* chunkObj.text(): UTF-8 decoding of the bytes read
RECURSIVE Decode(_)
Decode(bytes) ==
  IF bytes = <<>> THEN <<>>
  ELSE IF Head(bytes) = "E1" /\ Len(bytes) > 1 /\ bytes[2] = "E2"
       THEN <<"E">> \o Decode(SubSeq(bytes, 3, Len(bytes)))
  ELSE IF Head(bytes) \in {"E1", "E2"} THEN <<"?">> \o Decode(Tail(bytes))
  ELSE <<Head(bytes)>> \o Decode(Tail(bytes))

\* text.indexOf("\n") and text.lastIndexOf("\n"), counted from 1; 0: none
IndexOfNewline(text) ==
  IF \A k \in DOMAIN text : text[k] # "n" THEN 0
  ELSE CHOOSE k \in DOMAIN text : text[k] = "n" /\ \A j \in 1..(k - 1) : text[j] # "n"

LastIndexOfNewline(text) ==
  IF \A k \in DOMAIN text : text[k] # "n" THEN 0
  ELSE CHOOSE k \in DOMAIN text : text[k] = "n" /\ \A j \in (k + 1)..Len(text) : text[j] # "n"

\* text.split("\n")
RECURSIVE SplitLines(_)
SplitLines(text) ==
  LET k == IndexOfNewline(text) IN
  IF k = 0 THEN <<text>>
  ELSE <<SubSeq(text, 1, k - 1)>> \o SplitLines(SubSeq(text, k + 1, Len(text)))

\* parseCsv(text): the non-empty lines after the first of them, which is the
\* header; a row is written as its line
parseCsv(text) ==
  LET lines == SelectSeq(SplitLines(text), LAMBDA l : Len(l) > 0)
  IN IF lines = <<>> THEN <<>> ELSE Tail(lines)

\* one step "Import stop_times chunk": what it parses and what it returns
ChunkStep(c) ==
  LET size == Len(c.bytes)
      isFirstChunk == c.offset = 0
      length == IF c.chunkSize < size - c.offset THEN c.chunkSize ELSE size - c.offset
      headText == Decode(SubSeq(c.bytes, 1,
                    IF HeadRangeLength < size THEN HeadRangeLength ELSE size))
      firstLineEnd == IndexOfNewline(headText)
      header0 == IF ~isFirstChunk /\ c.headerLine = <<>> /\ firstLineEnd # 0
                 THEN SubSeq(headText, 1, firstLineEnd - 1)
                 ELSE c.headerLine
      text0 == Decode(SubSeq(c.bytes, c.offset + 1, c.offset + length))
      lastNewline == LastIndexOfNewline(text0)
      cut == c.offset + length < size /\ lastNewline # 0
      text == IF cut THEN SubSeq(text0, 1, lastNewline - 1) ELSE text0
      processedBytes == IF cut THEN lastNewline ELSE Len(text0)
      firstNewline == IndexOfNewline(text)
      currentHeader == IF isFirstChunk /\ firstNewline # 0
                       THEN SubSeq(text, 1, firstNewline - 1)
                       ELSE header0
      csvContent == IF ~isFirstChunk /\ currentHeader # <<>>
                    THEN currentHeader \o <<"n">> \o text
                    ELSE text
  IN [rows |-> parseCsv(csvContent), processed |-> processedBytes,
      header |-> currentHeader]

\* while (offset < size): one chunk step, then offset += result.processed,
\* headerLine = result.header, chunkIndex++
ReadChunk ==
  /\ calc.pc = "chunks"
  /\ calc.offset < Len(calc.bytes)
  /\ LET result == ChunkStep(calc) IN
     calc' = [calc EXCEPT !.rows = @ \o result.rows,
                          !.offset = @ + result.processed,
                          !.headerLine = result.header,
                          !.chunkIndex = @ + 1]
  /\ UNCHANGED <<db, r2, upstream, wf, hist, crashes, runsLeft, rt>>

\* the loop is left
ChunksDone ==
  /\ calc.pc = "chunks"
  /\ calc.offset >= Len(calc.bytes)
  /\ calc' = [calc EXCEPT !.pc = "read"]
  /\ UNCHANGED <<db, r2, upstream, wf, hist, crashes, runsLeft, rt>>

\* files: the header line "h" and up to MaxFileChars further characters
TableFiles ==
  {<<"h", "n">> \o body :
     body \in SeqsUpTo({"a", "b", "E", "n"}, MaxFileChars)}

InitChunk ==
  /\ db = EmptyDb
  /\ r2 = <<>>
  /\ upstream = <<>>
  /\ wf = [i \in Instances |-> IdleRun]
  /\ hist = [i \in Instances |-> NoHistory]
  /\ crashes = 0
  /\ runsLeft = 0
  /\ rt = NoRealtime
  /\ \E file \in TableFiles, chunkSize \in 1..MaxChunkSize :
       calc = [pc |-> "chunks", file |-> file, bytes |-> Bytes(file),
               chunkSize |-> chunkSize, offset |-> 0, headerLine |-> <<>>,
               chunkIndex |-> 0, rows |-> <<>>]

NextChunk ==
  \/ ReadChunk
  \/ ChunksDone

SpecChunk == InitChunk /\ [][NextChunk]_vars

\* C18: when the chunk loop has ended, the rows its steps parsed, in order,
\* are the rows of the whole file parsed at once.
C18_ChunkedEqualsWhole ==
  calc.pc = "read" => calc.rows = parseCsv(Decode(calc.bytes))

\* the longest line of a file with its line feed, in bytes
LongestLine(file) ==
  LET lines == SplitLines(file)
  IN CHOOSE m \in 0..(Len(Bytes(file)) + 1) :
       /\ \A k \in DOMAIN lines : Len(Bytes(lines[k])) + 1 <= m
       /\ \E k \in DOMAIN lines : Len(Bytes(lines[k])) + 1 = m

\* what the loop does keep: the rows agree for a file of one-byte
\* characters in which every line, line feed included, fits into a chunk
ChunkedEqualsWholeAsciiFitting ==
  /\ calc.pc = "read"
  /\ \A k \in DOMAIN calc.file : calc.file[k] # "E"
  /\ LongestLine(calc.file) <= calc.chunkSize
  => calc.rows = parseCsv(Decode(calc.bytes))

\* the positions at which the instance is about to run a step: a sync or a
\* sleep
RtStepPcs ==
  {"tripUpdates", "tuQuotaSleep", "tuSleep", "serviceAlerts", "saQuotaSleep", "saSleep"}

\* C21: an instance whose cutoff has passed is about to run no sync step
\* and no sleep: it has returned at the boundary it reached.
C21_NoStepAfterCutoff ==
  rt.pc \in RtStepPcs => rt.now <= rt.cutoffTime

\* what the code does keep: past the cutoff no agency is begun
NoAgencyAfterCutoff ==
  rt.pc = "tripUpdates" => rt.now <= rt.cutoffTime

(***************************************************************************)
(* The order of the steps of an import run                                 *)
(***************************************************************************)
\* every chunk of a large file has been loaded by instance i
AllChunksLoaded(i, s) == wf[i].offset[s] >= Len(getFileRows(i, s))

\* C22: an instance stands at a load step that resolves references only
\* when the steps writing the referenced tables are over: at routes after
\* agencies, at trips after routes, at stop_times after every stops and
\* trips chunk, at transfers, frequencies, attributions and pathways after
\* stops, routes and trips.
C22_ReferencedTablesFirst ==
  \A i \in Instances :
    /\ wf[i].pc = "routes" => "agencies" \in hist[i].ran
    /\ wf[i].pc = "trips" => "routes" \in hist[i].ran
    /\ wf[i].pc = "stop_times" =>
         AllChunksLoaded(i, "stops") /\ AllChunksLoaded(i, "trips")
    /\ wf[i].pc \in {"transfers", "frequencies", "attributions", "pathways"} =>
         /\ "routes" \in hist[i].ran
         /\ AllChunksLoaded(i, "stops")
         /\ AllChunksLoaded(i, "trips")

\* an instance at stop_times whose stops came in two chunks or more
C22_Witness ==
  \E i \in Instances :
    /\ wf[i].pc = "stop_times"
    /\ wf[i].chunkIndex["stops"] >= 2
    /\ wf[i].chunkIndex["trips"] >= 1
    /\ {"agencies", "routes", "stops", "trips"} \subseteq hist[i].ran

\* the load steps in the order run() awaits them
LoadOrder ==
  <<"feed_info", "levels", "agencies", "routes", "stops", "parents",
    "calendar", "calendar_dates", "trips", "stop_times", "shapes",
    "fare_attributes", "fare_rules", "transfers", "frequencies",
    "attributions", "pathways", "areas", "stop_areas", "networks",
    "route_networks", "timeframes", "rider_categories", "fare_media",
    "fare_products", "fare_leg_rules", "fare_leg_join_rules",
    "fare_transfer_rules", "location_groups", "location_group_stops",
    "booking_rules", "translations">>

LoadPosition(s) == CHOOSE n \in DOMAIN LoadOrder : LoadOrder[n] = s

StagedOf(i) == {o \in DOMAIN r2 : o[2] = i}

\* C24: an import run that has reached Done, having loaded a new version
\* or having found its content imported already, has no object left under
\* its prefix.
C24_DoneLeavesNothingStaged ==
  \A i \in Instances : wf[i].pc = "done" => StagedOf(i) = {}

\* a run done on the new-version path and a later run done on the
\* duplicate path, both of which had staged files, and an empty staging area
C24_Witness ==
  \E i, j \in Instances :
    /\ wf[i].pc = "done" /\ wf[i].isNewVersion
    /\ wf[j].pc = "done" /\ ~wf[j].isNewVersion
    /\ hist[j].bytes = hist[i].bytes
    /\ "download" \in hist[i].ran /\ "download" \in hist[j].ran
    /\ StagedOf(i) = {} /\ StagedOf(j) = {}

(***************************************************************************)
(* Import instances that overlap: create() does not wait for the instances *)
(* created before.                                                         *)
(***************************************************************************)
\* IMPORT_511_WORKFLOW.create({ params: { id } }) while another instance may
\* be running
StartConcurrent(i, id) ==
  /\ runsLeft > 0
  /\ wf[i].pc = "idle"
  /\ \A j \in Instances : j < i => wf[j].pc # "idle"
  /\ wf' = [wf EXCEPT ![i] = [IdleRun EXCEPT !.pc = "download", !.id = id]]
  /\ hist' = [hist EXCEPT ![i] =
                [NoHistory EXCEPT !.activeBefore =
                   {v.feed_version_id : v \in {x \in db.feed_version : x.is_active = 1}}]]
  /\ runsLeft' = runsLeft - 1
  /\ UNCHANGED <<db, r2, upstream, rt, calc, crashes>>

NextPar ==
  \E i \in Instances :
    \/ \E id \in OperatorIds : StartConcurrent(i, id)
    \/ \E bytes \in DOMAIN upstream : Download(i, bytes)
    \/ InitEnsureFeedSource(i)
    \/ InitThrowNoTimezone(i)
    \/ InitInsertVersion(i)
    \/ InitActivateExisting(i)
    \/ InitClearStaged(i)
    \/ InitDeactivateOthers(i)
    \/ InitReturn(i)
    \/ InitCrash(i)
    \/ ImportAgencies(i)
    \/ ImportRoutes(i)
    \/ ImportStopsChunk(i)
    \/ UpdateParents(i)
    \/ ImportCalendarDates(i)
    \/ ImportTripsChunk(i)
    \/ ImportStopTimesChunk(i)
    \/ ImportTransfers(i)
    \/ ImportFrequencies(i)
    \/ ImportAttributions(i)
    \/ ImportPathways(i)
    \/ ImportOther(i)
    \/ CleanupR2(i)
    \/ StepFails(i)

\* two instances created for one operator, their archive being the same
\* valid one or the one without a timezone
InitPar ==
  /\ db = EmptyDb
  /\ r2 = <<>>
  /\ upstream = [b \in {"b0", "b1"} |-> IF b = "b0" THEN FeedNoTimezone ELSE FeedS]
  /\ wf = [i \in Instances |-> IdleRun]
  /\ hist = [i \in Instances |-> NoHistory]
  /\ crashes = 0
  /\ runsLeft = 2
  /\ rt = NoRealtime
  /\ calc = NoCalc

SpecPar == InitPar /\ [][NextPar]_vars

\* the files instance i staged, as its archive holds them
StagedIntact(i) ==
  \A k \in FileKeys :
    upstream[hist[i].bytes][k] # <<>> =>
      /\ ObjectKey(i, k) \in DOMAIN r2
      /\ r2[ObjectKey(i, k)] = upstream[hist[i].bytes][k]

\* C25: whatever the other instances do meanwhile, from the end of its
\* download to the start of its cleanup an instance finds every file it
\* staged under its prefix, with the content of its own archive; an
\* instance that has not downloaded yet has no object under its prefix.
C25_StagedFilesUntouched ==
  \A i \in Instances :
    /\ wf[i].pc \in Steps \ {"download", "cleanup"} => StagedIntact(i)
    /\ wf[i].pc = "idle" => StagedOf(i) = {}

\* one instance is still loading, its staged files in place, while another,
\* created meanwhile, has downloaded, cleaned up and finished
C25_Witness ==
  \E i, j \in Instances :
    /\ i # j
    /\ wf[i].pc = "stop_times" /\ StagedOf(i) # {} /\ StagedIntact(i)
    /\ wf[j].pc = "done" /\ "cleanup" \in hist[j].ran
    /\ StagedOf(j) = {}

\* the tables the static import owns
RtStaticTables == {"feed_source", "feed_version", "routes", "stops", "trips"}

\* C26: no step of the real-time instance changes feed_source, feed_version,
\* routes, stops or trips, nor their row counters; steps write trip_updates
\* and service_alerts only.
C26_StaticTablesUnchanged ==
  [][\A t \in RtStaticTables :
       /\ db'[t] = db[t]
       /\ db'.sqlite_sequence[t] = db.sqlite_sequence[t]]_vars

\* both sync steps have written rows
C26_Witness ==
  /\ rt.pc # "none"
  /\ db.trip_updates # {}
  /\ db.service_alerts # {}
  /\ \E r \in db.trip_updates : r.trip_pk = 0

\* the natural id column of the static tables that have one
NaturalIdCol ==
  [agency |-> "agency_id", routes |-> "route_id", stops |-> "stop_id",
   trips |-> "trip_id", pathways |-> "pathway_id"]

\* C27: each static table with a natural id holds at most one row per
\* (feed_version_id, natural id), whatever ids the input repeats and
\* whichever step body is run again.
C27_OneRowPerNaturalId ==
  \A t \in DOMAIN NaturalIdCol :
    \A x, y \in db[t] :
      (x.feed_version_id = y.feed_version_id
         /\ x[NaturalIdCol[t]] = y[NaturalIdCol[t]]) => x = y

\* the same for the rows whose natural id is not NULL
OneRowPerNonNullId ==
  \A t \in DOMAIN NaturalIdCol :
    \A x, y \in db[t] :
      (x.feed_version_id = y.feed_version_id
         /\ x[NaturalIdCol[t]] # NULL
         /\ x[NaturalIdCol[t]] = y[NaturalIdCol[t]]) => x = y

\* instance i staged a calendar_dates.txt with a date that does not parse
HasBadDate(i) ==
  /\ hist[i].bytes # ""
  /\ \E n \in DOMAIN FileOf(i).calendar_dates :
       FileOf(i).calendar_dates[n].date \notin ValidDates

\* C28: an empty or unparsable date never makes a step fail: no instance
\* ends errored over the null the date was turned into, and when a run
\* with such a date has left the calendar_dates step behind, the row is
\* stored with a null date or not at all.
C28_BadFieldNeverFatal ==
  \A i \in Instances :
    /\ wf[i].error # "NOT NULL constraint failed: calendar_dates.date"
    /\ (HasBadDate(i) /\ "calendar_dates" \in hist[i].ran) =>
         \A r \in db.calendar_dates : r.date \in {NullDate} \cup
            {parseGtfsDate(d, "TZ") : d \in ValidDates}

\* what the code does instead: a run that loads a new version from an
\* archive with such a date never completes that step, and no row of the
\* file is stored
BadDateStopsTheRun ==
  \A i \in Instances :
    (HasBadDate(i) /\ wf[i].isNewVersion) =>
      /\ "calendar_dates" \notin hist[i].ran
      /\ wf[i].pc # "done"
      /\ db.calendar_dates = {}

\* the delay the first stop-time update of a trip update gives
FirstStopDelay(e) ==
  IF Len(e.stopTimeUpdate) = 0 THEN 0
  ELSE IF e.stopTimeUpdate[1].arrival # 0 THEN e.stopTimeUpdate[1].arrival
  ELSE e.stopTimeUpdate[1].departure

\* C29: the delay of a row a trip-update sync inserted is the top-level
\* delay of the update when the message carries one, a top-level delay of 0
\* included, and the first stop-time update's arrival delay, else departure
\* delay, else 0 only when it carries none.
C29_TopLevelDelayStored ==
  LastWas("tripUpdates") =>
    \A r \in db.trip_updates \ rt.last.before :
      LET e == FirstUpdateOf(r.trip_id)
      IN r.delay = IF e.hasDelay THEN e.delay ELSE FirstStopDelay(e)

\* the same for the updates other than those with a top-level delay of 0
DelayStoredUnlessZero ==
  LastWas("tripUpdates") =>
    \A r \in db.trip_updates \ rt.last.before :
      LET e == FirstUpdateOf(r.trip_id)
      IN ~(e.hasDelay /\ e.delay = 0) =>
           r.delay = IF e.hasDelay THEN e.delay ELSE FirstStopDelay(e)

\* a sync stored rows for a top-level delay, for an arrival delay and for a
\* departure delay
DelayCasesStored ==
  /\ LastWas("tripUpdates")
  /\ \E r \in db.trip_updates : r.delay = 5
  /\ \E r \in db.trip_updates : r.delay = 7
  /\ \E r \in db.trip_updates : r.delay = 9 /\ r.updated_time = 100

\* key pk is null or the key of a row of table t in the version the latest
\* sync was given as the active one of its source
KeyOfContextVersion(t, pk) ==
  pk # 0 =>
    /\ \E v \in db.feed_version :
         /\ v.feed_version_id = rt.last.ctx.feedVersionId
         /\ v.feed_source_id = rt.last.ctx.feedSourceId
         /\ v.is_active = 1
    /\ \E x \in db[t] : /\ x[PkCol[t]] = pk
                         /\ x.feed_version_id = rt.last.ctx.feedVersionId

\* C30: every trip, route or stop key that is not null in a row a sync
\* step inserted into trip_updates or service_alerts is the key of a row of
\* the version getFeedContext returned in that step as the active one.
C30_KeysOfActiveVersion ==
  /\ LastWas("tripUpdates") =>
       \A r \in db.trip_updates \ rt.last.before :
         KeyOfContextVersion("trips", r.trip_pk)
  /\ LastWas("serviceAlerts") =>
       \A r \in InsertedAlerts :
         /\ KeyOfContextVersion("routes", r.affected_route_pk)
         /\ KeyOfContextVersion("stops", r.affected_stop_pk)
         /\ KeyOfContextVersion("trips", r.affected_trip_pk)

\* an alert sync resolved a route, after a trip-update sync had resolved a
\* trip, while a retired version holds a route and a trip of the same ids
C30_Witness ==
  /\ LastWas("serviceAlerts")
  /\ \E r \in InsertedAlerts : r.affected_route_pk = 1
  /\ \E u \in db.trip_updates : u.trip_pk = 1
  /\ \E x \in db.trips : x.trip_id = "T1" /\ x.feed_version_id = 2
  /\ \E x \in db.routes : x.route_id = "R1" /\ x.feed_version_id = 2

\* C31: every trips row's route_pk is the key of a routes row of the trip's
\* feed_version, and every stop_times row's trip_pk and stop_pk are the
\* keys of a trip and of a stop of one and the same feed_version.
C31_ReferencesWithinVersion ==
  /\ \A t \in db.trips :
       \E x \in db.routes : /\ x.route_pk = t.route_pk
                            /\ x.feed_version_id = t.feed_version_id
  /\ \A st \in db.stop_times :
       \E t \in db.trips, x \in db.stops :
         /\ t.trip_pk = st.trip_pk
         /\ x.stop_pk = st.stop_pk
         /\ t.feed_version_id = x.feed_version_id

\* two versions hold trips, and a stop_times row of the second is stored
C31_Witness ==
  /\ \E t, u \in db.trips : t.feed_version_id # u.feed_version_id
  /\ \E st \in db.stop_times, t \in db.trips :
       t.trip_pk = st.trip_pk /\ t.feed_version_id > 1

LastWasFetch == LastWas("tripUpdates") \/ LastWas("serviceAlerts")

\* the last RateLimit-Limit the instance has seen that is not zero, 60 when
\* it has seen none: the upstream announces the same limit in every
\* response of a behaviour
LimitSeen == IF rt.quota.limit # 0 THEN rt.quota.limit ELSE DefaultRequestsAllowed

\* C32: a fetch that is not the first of its instance comes after a pacing
\* sleep of floor(3600 / requestsAllowedInWindow) seconds since the fetch
\* before it.
C32_PacedBetweenFetches ==
  (LastWasFetch /\ rt.last.paced # -1) =>
    rt.last.paced = secondsToSpread \div LimitSeen

\* what the code keeps: between two fetches there is that sleep or, when
\* the later fetch is the same step body run again, none at all
PacedBetweenSteps ==
  LastWasFetch => rt.last.paced \in {-1, 0, secondsToSpread \div LimitSeen}

\* fetches of every kind: paced after the header's limit and after the
\* default
PacedCases ==
  /\ LastWasFetch
  /\ rt.last.paced = 30
  /\ rt.cycles = 2

(***************************************************************************)
(* Two instances created for one operator on two different valid archives. *)
(* The statements of their 'Initialize feed version' steps interleave in   *)
(* every way; the steps after it, which neither read nor write             *)
(* feed_version, are taken one instance at a time.                         *)
(***************************************************************************)
InitRace ==
  /\ db = EmptyDb
  /\ r2 = <<>>
  /\ upstream = [b \in {"b1", "b2"} |-> IF b = "b1" THEN FeedS ELSE FeedB]
  /\ wf = [i \in Instances |-> IdleRun]
  /\ hist = [i \in Instances |-> NoHistory]
  /\ crashes = 0
  /\ runsLeft = 2
  /\ rt = NoRealtime
  /\ calc = NoCalc

\* instance i is past its init step, no other instance is inside download
\* or init, and no instance created before it is still running
LoadTurn(i) ==
  /\ wf[i].pc \in Steps \ {"download", "init"}
  /\ \A j \in Instances \ {i} :
       /\ wf[j].pc \notin {"download", "init"}
       /\ j < i => ~Running(j)

NextRace ==
  \E i \in Instances :
    \/ \E id \in OperatorIds : StartConcurrent(i, id)
    \/ \E bytes \in DOMAIN upstream : Download(i, bytes)
    \/ InitEnsureFeedSource(i)
    \/ InitInsertVersion(i)
    \/ InitActivateExisting(i)
    \/ InitClearStaged(i)
    \/ InitDeactivateOthers(i)
    \/ InitReturn(i)
    \/ InitCrash(i)
    \/ LoadTurn(i) /\ ImportAgencies(i)
    \/ LoadTurn(i) /\ ImportRoutes(i)
    \/ LoadTurn(i) /\ ImportStopsChunk(i)
    \/ LoadTurn(i) /\ UpdateParents(i)
    \/ LoadTurn(i) /\ ImportCalendarDates(i)
    \/ LoadTurn(i) /\ ImportTripsChunk(i)
    \/ LoadTurn(i) /\ ImportStopTimesChunk(i)
    \/ LoadTurn(i) /\ ImportTransfers(i)
    \/ LoadTurn(i) /\ ImportFrequencies(i)
    \/ LoadTurn(i) /\ ImportAttributions(i)
    \/ LoadTurn(i) /\ ImportPathways(i)
    \/ LoadTurn(i) /\ ImportOther(i)
    \/ LoadTurn(i) /\ CleanupR2(i)
    \/ StepFails(i)

SpecRace == InitRace /\ [][NextRace]_vars

\* the versions of the operator's source that are active
ActiveVersions == {v \in db.feed_version : v.is_active = 1}

\* C33: once two instances that imported different archives of one source,
\* their init steps interleaved in any way and no step body run twice, have
\* both returned, exactly one feed_version of the source is active.
C33_OneActiveAfterBoth ==
  (/\ wf[1].pc = "done" /\ wf[2].pc = "done"
   /\ hist[1].bytes # hist[2].bytes
   /\ crashes = 0)
    => Cardinality(ActiveVersions) = 1

(***************************************************************************)
(* Replay of run() from the top.  run() keeps routeMap, stopMap, tripMap,  *)
(* parentAssignments and the offset, header and chunk index of each chunk  *)
(* loop in locals; after an interruption the engine calls run() again and  *)
(* every completed step.do returns its stored result without running its   *)
(* body.                                                                   *)
(***************************************************************************)
\* the locals of run() at its first line
FreshLocals(w) == [IdleRun EXCEPT !.pc = w.pc, !.stmt = w.stmt, !.id = w.id]

\* what run() does with the result e of one step
ReplayStep(w, e) ==
  CASE e.step = "download" -> [w EXCEPT !.hashHex = e.hashHex]
    [] e.step = "init" ->
         [w EXCEPT !.feedVersionId = e.feedVersionId,
                   !.isNewVersion = e.isNewVersion,
                   !.agencyTimezone = e.agencyTimezone]
    [] e.step = "agencies" -> [w EXCEPT !.agencyMap = e.map]
    [] e.step = "routes" -> [w EXCEPT !.routeMap = e.map]
    [] e.step = "stops" ->
         [w EXCEPT !.offset["stops"] = @ + e.processed,
                   !.chunkIndex["stops"] = @ + 1,
                   !.stopMap = ObjectAssign(@, e.map),
                   !.parentAssignments = @ \o e.assignments]
    [] e.step = "trips" ->
         [w EXCEPT !.offset["trips"] = @ + e.processed,
                   !.chunkIndex["trips"] = @ + 1,
                   !.tripMap = ObjectAssign(@, e.map)]
    [] e.step \in ChunkSteps \ {"stops", "trips"} ->
         [w EXCEPT !.offset[e.step] = @ + e.processed,
                   !.chunkIndex[e.step] = @ + 1]
    [] OTHER -> w

\* run() called again with the stored results memo
RECURSIVE Replay(_, _)
Replay(w, memo) ==
  IF memo = <<>> THEN w ELSE Replay(ReplayStep(w, Head(memo)), Tail(memo))

\* the locals the later steps read
Locals(w) ==
  [hashHex |-> w.hashHex, feedVersionId |-> w.feedVersionId,
   isNewVersion |-> w.isNewVersion, agencyTimezone |-> w.agencyTimezone,
   agencyMap |-> w.agencyMap, routeMap |-> w.routeMap, stopMap |-> w.stopMap,
   parentAssignments |-> w.parentAssignments, tripMap |-> w.tripMap,
   offset |-> w.offset, chunkIndex |-> w.chunkIndex]

\* w holds what a run that is never interrupted holds when it reaches the
\* cleanup step, having inserted the version of its archive: every route,
\* stop and trip id of the archive resolves to its row of that version, every
\* child stop has its parent assignment, every chunk loop stands at the end
\* of its file
PkOfId(i, t, idCol, id) ==
  {x[PkCol[t]] : x \in {y \in db[t] : /\ y.feed_version_id = hist[i].inserted
                                      /\ y[idCol] = id}}

IdsOf(rows, idCol) == {rows[n][idCol] : n \in DOMAIN rows}

UninterruptedLocals(i, w) ==
  LET file == FileOf(i)
      kept == TripRowsKept(file.trips, w.routeMap)
  IN /\ w.isNewVersion /\ w.feedVersionId = hist[i].inserted
     /\ DOMAIN w.routeMap = IdsOf(file.routes, "route_id")
     /\ \A id \in DOMAIN w.routeMap : w.routeMap[id] \in PkOfId(i, "routes", "route_id", id)
     /\ DOMAIN w.stopMap = IdsOf(file.stops, "stop_id")
     /\ \A id \in DOMAIN w.stopMap : w.stopMap[id] \in PkOfId(i, "stops", "stop_id", id)
     /\ DOMAIN w.tripMap = IdsOf(kept, "trip_id")
     /\ \A id \in DOMAIN w.tripMap : w.tripMap[id] \in PkOfId(i, "trips", "trip_id", id)
     /\ Len(w.parentAssignments) =
          Cardinality({n \in DOMAIN file.stops : file.stops[n].parent_station # ""})
     /\ \A s \in ChunkSteps : w.offset[s] = Len(file[s])

\* C34: when run() is replayed from the top with the stored results of its
\* completed steps, routeMap, stopMap, tripMap, parentAssignments and the
\* offset and chunk index of every chunk loop are rebuilt to the values of
\* an uninterrupted run.  Stated where the replay has reached the cleanup
\* step of a run that inserted its version.
C34_ReplayEqualsUninterrupted ==
  \A i \in Instances :
    (wf[i].pc = "cleanup" /\ hist[i].inserted # 0) =>
      UninterruptedLocals(i, Replay(FreshLocals(wf[i]), hist[i].memo))

\* the replay rebuilds the locals the run held before the interruption, at
\* every step
ReplayRebuildsLocals ==
  \A i \in Instances :
    (Running(i) /\ wf[i].stmt = 0) =>
      Locals(Replay(FreshLocals(wf[i]), hist[i].memo)) = Locals(wf[i])

\* and they are the values of an uninterrupted run unless the interruption
\* fell into the init step after its INSERT (C4)
ReplayEqualsUninterruptedIfNew ==
  \A i \in Instances :
    (wf[i].pc = "cleanup" /\ wf[i].isNewVersion) =>
      UninterruptedLocals(i, Replay(FreshLocals(wf[i]), hist[i].memo))

\* a replay after an interrupted chunk step has rebuilt a table of two chunks
ReplayCases ==
  \E i \in Instances :
    /\ wf[i].pc = "cleanup" /\ wf[i].isNewVersion /\ crashes > 0
    /\ wf[i].chunkIndex["stops"] = 2
    /\ wf[i].parentAssignments # <<>>

\* a chunk step is about to read at the first character of a line
AtLineStart == calc.offset = 0 \/ calc.bytes[calc.offset] = "n"

\* C35: the chunk loop of a large table terminates for every file and chunk
\* size: the offset never passes the file size, the loop ends with the offset
\* equal to the file size, and every chunk after the first starts at the
\* first character of a line.
C35_ChunkLoopEndsAtLineStarts ==
  /\ calc.offset <= Len(calc.bytes)
  /\ calc.pc = "read" => calc.offset = Len(calc.bytes)
  /\ (calc.pc = "chunks" /\ calc.offset < Len(calc.bytes)) => AtLineStart

\* what the loop does keep: every step advances the offset by at least 1
ChunkStepAdvances == [][ReadChunk => calc'.offset >= calc.offset + 1]_vars

\* the offset stays within the file, the loop ends at the file size, and it
\* takes no more steps than the file has bytes
ChunkLoopEndsAtSize ==
  /\ calc.offset <= Len(calc.bytes)
  /\ calc.chunkIndex <= Len(calc.bytes)
  /\ calc.pc = "read" => calc.offset = Len(calc.bytes)

\* chunks start at line starts in a file of one-byte characters whose every
\* line, line feed included, fits into a chunk
LineStartsAsciiFitting ==
  (/\ calc.pc = "chunks" /\ calc.offset < Len(calc.bytes)
   /\ \A k \in DOMAIN calc.file : calc.file[k] # "E"
   /\ LongestLine(calc.file) <= calc.chunkSize) => AtLineStart

(***************************************************************************)
(* batchExecute(db, statements, chunkSize, concurrency) by itself: rounds  *)
(* of up to concurrency batches of up to chunkSize statements, the batches *)
(* of a round in flight together.  The store runs each batch as a whole,   *)
(* the batches of a round in any order; the result of a statement names    *)
(* the statement and its position in the store's order of execution.       *)
(***************************************************************************)
\* the longest statement list
MaxStatements == 4
\* the largest chunkSize
MaxBatchSize == 3
\* the largest concurrency
MaxConcurrency == 3

\* fault variant of slice: the element at end is taken too
sliceInclusive(seq, start, end) ==
  SubSeq(seq, start + 1, IF end + 1 < Len(seq) THEN end + 1 ELSE Len(seq))

\* statements.slice(start, end), indices counted from 0
slice(seq, start, end) ==
  SubSeq(seq, start + 1, IF end < Len(seq) THEN end ELSE Len(seq))

\* for (i ..; i += chunkSize * concurrency): the batches of one round are
\* cut and handed to db.batch, empty chunks left out; after the last round
\* batchExecute returns results
BatchRound ==
  /\ calc.pc = "round"
  /\ calc' =
       IF calc.i < Len(calc.statements)
       THEN LET chunks == [j \in 0..(calc.concurrency - 1) |->
                             slice(calc.statements,
                                   calc.i + j * calc.chunkSize,
                                   calc.i + j * calc.chunkSize + calc.chunkSize)]
                pushed == SelectSeq([n \in 1..calc.concurrency |-> chunks[n - 1]],
                                    LAMBDA c : Len(c) > 0)
            IN [calc EXCEPT !.pc = "await",
                            !.batchPromises =
                               [n \in DOMAIN pushed |->
                                  [chunk |-> pushed[n], settled |-> FALSE,
                                   results |-> <<>>]]]
       ELSE [calc EXCEPT !.pc = "returned"]
  /\ UNCHANGED <<db, r2, upstream, wf, hist, crashes, runsLeft, rt>>

\* db.batch(chunk) of one batch in flight: the store runs its statements in
\* order and answers with one result per statement
DbBatch ==
  /\ calc.pc = "await"
  /\ \E n \in DOMAIN calc.batchPromises :
       /\ ~calc.batchPromises[n].settled
       /\ LET chunk == calc.batchPromises[n].chunk
              done == Len(calc.executed)
          IN calc' = [calc EXCEPT
                        !.executed = @ \o chunk,
                        !.batchPromises[n].settled = TRUE,
                        !.batchPromises[n].results =
                           [k \in DOMAIN chunk |->
                              [statement |-> chunk[k], order |-> done + k]]]
  /\ UNCHANGED <<db, r2, upstream, wf, hist, crashes, runsLeft, rt>>

\* await Promise.all(batchPromises), then results.push(...batchResults) for
\* each batch in the order of batchPromises
PromiseAll ==
  /\ calc.pc = "await"
  /\ \A n \in DOMAIN calc.batchPromises : calc.batchPromises[n].settled
  /\ calc' = [calc EXCEPT
                !.pc = "round",
                !.results = @ \o Flatten([n \in DOMAIN calc.batchPromises |->
                                            calc.batchPromises[n].results]),
                !.batchPromises = <<>>,
                !.i = @ + calc.chunkSize * calc.concurrency]
  /\ UNCHANGED <<db, r2, upstream, wf, hist, crashes, runsLeft, rt>>

\* any statement list of up to MaxStatements statements, any chunkSize and
\* concurrency from 1
InitBatch ==
  /\ db = EmptyDb
  /\ r2 = <<>>
  /\ upstream = <<>>
  /\ wf = [i \in Instances |-> IdleRun]
  /\ hist = [i \in Instances |-> NoHistory]
  /\ crashes = 0
  /\ runsLeft = 0
  /\ rt = NoRealtime
  /\ \E n \in 0..MaxStatements, chunkSize \in 1..MaxBatchSize,
        concurrency \in 1..MaxConcurrency :
       calc = [pc |-> "round", statements |-> [k \in 1..n |-> k],
               chunkSize |-> chunkSize, concurrency |-> concurrency,
               i |-> 0, batchPromises |-> <<>>, executed |-> <<>>,
               results |-> <<>>]

NextBatch ==
  \/ BatchRound
  \/ DbBatch
  \/ PromiseAll

SpecBatch == InitBatch /\ [][NextBatch]_vars

\* C36: batchExecute submits every statement to the store exactly once and
\* returns one result per statement in statement order: results[i] is the
\* result of statements[i], whatever the order in which the batches of a
\* round ran.
C36_OneResultPerStatementInOrder ==
  calc.pc = "returned" =>
    /\ \A k \in DOMAIN calc.statements :
         Cardinality({e \in DOMAIN calc.executed :
                        calc.executed[e] = calc.statements[k]}) = 1
    /\ Len(calc.executed) = Len(calc.statements)
    /\ Len(calc.results) = Len(calc.statements)
    /\ \A k \in DOMAIN calc.statements :
         /\ calc.results[k].statement = calc.statements[k]
         /\ calc.executed[calc.results[k].order] = calc.statements[k]

\* a call has returned whose round of several batches ran out of order at
\* the store, after a round before it
C36_Witness ==
  /\ calc.pc = "returned"
  /\ Len(calc.statements) = MaxStatements
  /\ calc.chunkSize = 1 /\ calc.concurrency = 2
  /\ calc.executed = <<2, 1, 4, 3>>

(***************************************************************************)
(* Imports of one source into a store that holds another source.           *)
(***************************************************************************)
\* the store after imports of operator BA: an older version, de-activated,
\* with its route, and the active version with the tables of FeedS
StoreWithOtherSource ==
  LET src == Upsert(EmptyDb, "feed_source", {}, [source_name |-> "BA"])
      old == InsertFeedVersion(src.db, src.pk, versionLabel("BA", sha256Hex("b2")))
      oldRoutes == batchExecute(old.db, "routes", {"agency_pk"},
                                RouteStmts(old.pk, FeedB.routes, EmptyMap))
      new == InsertFeedVersion(oldRoutes.db, src.pk,
                               versionLabel("BA", sha256Hex("b1")))
      only == DeactivateOthers(new.db, src.pk, new.pk)
      agencies == batchExecute(only, "agency", {}, AgencyStmts(new.pk, FeedS.agency))
      agencyMap == MapFromResults([n \in DOMAIN FeedS.agency |-> FeedS.agency[n].agency_id],
                                  agencies.pks, EmptyMap)
      routes == batchExecute(agencies.db, "routes", {"agency_pk"},
                             RouteStmts(new.pk, FeedS.routes, agencyMap))
      routeMap == MapFromResults([n \in DOMAIN FeedS.routes |-> FeedS.routes[n].route_id],
                                 routes.pks, EmptyMap)
      stops == batchExecute(routes.db, "stops", {}, StopStmts(new.pk, FeedS.stops))
      stopMap == MapFromResults([n \in DOMAIN FeedS.stops |-> FeedS.stops[n].stop_id],
                                stops.pks, EmptyMap)
      parents == UpdateParentStations(stops.db,
                                      LocalAssignments(FeedS.stops, stops.pks), stopMap)
      trips == batchExecute(parents, "trips", {"route_pk"},
                            TripStmts(new.pk, TripRowsKept(FeedS.trips, routeMap), routeMap))
      tripMap == MapFromResults([n \in DOMAIN FeedS.trips |-> FeedS.trips[n].trip_id],
                                trips.pks, EmptyMap)
  IN batchExecute(trips.db, "stop_times", {"stop_pk"},
                  StopTimeStmts(StopTimeRowsKept(FeedS.stop_times, tripMap, stopMap),
                                tripMap, stopMap)).db

InitTwoSources ==
  /\ db = StoreWithOtherSource
  /\ r2 = <<>>
  /\ \E bad \in {FeedNoTimezone, FeedNoAgency} :
       upstream = [b \in {"b0", "b1", "b2"} |->
                     CASE b = "b0" -> bad [] b = "b1" -> FeedS [] OTHER -> FeedB]
  /\ wf = [i \in Instances |-> IdleRun]
  /\ hist = [i \in Instances |-> NoHistory]
  /\ crashes = 0
  /\ runsLeft = MaxRuns
  /\ rt = NoRealtime
  /\ calc = NoCalc

SpecTwoSources == InitTwoSources /\ [][Next]_vars

\* the tables of the static schedule
StaticTables == Tables \ {"feed_source", "feed_version"}

\* the versions of the sources no instance imports
OtherVersions(d) ==
  {v \in d.feed_version :
     \E src \in d.feed_source : /\ src.feed_source_id = v.feed_source_id
                                /\ src.source_name \notin OperatorIds}

\* the version a static row belongs to in store d (stop_times and
\* frequencies through their trip)
VersionOfRow(d, t, r) ==
  IF "feed_version_id" \in DOMAIN r THEN {r.feed_version_id}
  ELSE {x.feed_version_id : x \in {y \in d.trips : y.trip_pk = r.trip_pk}}

\* the static rows of store d that a step added, changed or removed
Touched(d, t, before, after) ==
  UNION {VersionOfRow(d, t, r) : r \in (before \ after) \cup (after \ before)}

\* C37: an import run for source A leaves every feed_version row of any
\* other source unchanged, its is_active flag included, and adds, changes
\* or removes static rows only of the feed_version it created for A.
C37_OnlyOwnVersionWritten ==
  [][/\ OtherVersions(db') = OtherVersions(db)
     /\ \A t \in StaticTables :
          (Touched(db, t, db[t], db'[t]) \cup Touched(db', t, db[t], db'[t]))
            \subseteq ({hist'[i].inserted : i \in Instances} \ {0})]_vars

\* two imports of A are done, each with a version of its own, beside the
\* active and the inactive version of the other source
C37_Witness ==
  /\ \A i \in Instances : wf[i].pc = "done" /\ hist[i].inserted # 0
  /\ \E v \in OtherVersions(db) : v.is_active = 1
  /\ \E v \in OtherVersions(db) : v.is_active = 0
  /\ \E x \in db.stop_times, y \in db.stop_times :
       x.trip_pk # y.trip_pk

\* the staged agency.txt of instance i is missing or its first row has no
\* agency_timezone
NoTimezone(i) ==
  LET agencyRows == getFileRows(i, "agency")
  IN IF agencyRows = <<>> THEN TRUE ELSE agencyRows[1].agency_timezone = ""

\* C38: with agency.txt missing or without agency_timezone in its first row
\* the 'Initialize feed version' step fails before any store write: whatever
\* the instance does in that step ends it as failed and leaves the store as
\* it is, no version activated or de-activated.
C38_NoTimezoneFailsBeforeWrites ==
  [][\A i \in Instances :
       (wf[i].pc = "init" /\ NoTimezone(i)) =>
          /\ db' = db
          /\ wf'[i].pc = "failed"]_vars

\* an import failed for its timezone beside the active version an earlier
\* import of the source had loaded
C38_Witness ==
  \E i, j \in Instances :
    /\ wf[i].pc = "failed" /\ wf[i].error = "Agency timezone is missing"
    /\ wf[j].pc = "done" /\ hist[j].inserted # 0
    /\ \E v \in db.feed_version :
         v.feed_version_id = hist[j].inserted /\ v.is_active = 1
    /\ hist[i].bytes # "" /\ FileOf(i).agency = <<>>

\* the rows of table t that belong to the version instance i loads
OwnRows(i, t) == {r \in db[t] : r.feed_version_id = wf[i].feedVersionId}

\* C39: a routes.txt row whose agency_id is no key of the agency remapping
\* table is inserted all the same, with agency_pk null, and its route id
\* enters the route remapping table; the optional route and trip references
\* of a transfers row and the agency, route and trip references of an
\* attributions row are stored as null when unknown, the row is not dropped.
C39_UnknownOptionalRefsStoredNull ==
  \A i \in Instances :
    /\ LoadingPast(i, "routes") =>
         \A n \in DOMAIN FileOf(i).routes :
           LET row == FileOf(i).routes[n] IN
           /\ Lookup(wf[i].routeMap, row.route_id) # 0
           /\ \E r \in OwnRows(i, "routes") :
                /\ r.route_pk = wf[i].routeMap[row.route_id]
                /\ r.route_id = row.route_id
                /\ r.agency_pk = Lookup(wf[i].agencyMap, row.agency_id)
    /\ LoadingPast(i, "transfers") =>
         \A n \in DOMAIN FileOf(i).transfers :
           LET row == FileOf(i).transfers[n] IN
           (KnownStop(i, row.from_stop_id) /\ KnownStop(i, row.to_stop_id)) =>
             \E r \in OwnRows(i, "transfers") :
               /\ r.from_stop_pk = wf[i].stopMap[row.from_stop_id]
               /\ r.to_stop_pk = wf[i].stopMap[row.to_stop_id]
               /\ r.from_route_pk = Lookup(wf[i].routeMap, Optional(row, "from_route_id"))
               /\ r.to_route_pk = Lookup(wf[i].routeMap, Optional(row, "to_route_id"))
               /\ r.from_trip_pk = Lookup(wf[i].tripMap, Optional(row, "from_trip_id"))
               /\ r.to_trip_pk = Lookup(wf[i].tripMap, Optional(row, "to_trip_id"))
    /\ LoadingPast(i, "attributions") =>
         \A n \in DOMAIN FileOf(i).attributions :
           LET row == FileOf(i).attributions[n] IN
           \E r \in OwnRows(i, "attributions") :
             /\ r.attribution_id = row.attribution_id
             /\ r.agency_pk = Lookup(wf[i].agencyMap, row.agency_id)
             /\ r.route_pk = Lookup(wf[i].routeMap, row.route_id)
             /\ r.trip_pk = Lookup(wf[i].tripMap, row.trip_id)

\* a run stands behind its attributions step with a route of an unknown
\* agency stored and mapped, a transfer stored with one route and one trip
\* reference null and the other two resolved, and an attribution stored
\* with its agency and trip null
C39_Witness ==
  \E i \in Instances :
    /\ LoadingPast(i, "attributions")
    /\ \E r \in OwnRows(i, "routes") :
         r.agency_pk = 0 /\ Lookup(wf[i].routeMap, r.route_id) = r.route_pk
    /\ \E r \in OwnRows(i, "transfers") :
         /\ r.from_route_pk # 0 /\ r.to_route_pk = 0
         /\ r.from_trip_pk = 0 /\ r.to_trip_pk # 0
    /\ \E r \in OwnRows(i, "attributions") :
         r.agency_pk = 0 /\ r.route_pk # 0 /\ r.trip_pk = 0

====
